---- MODULE Spec2Model ----
(***************************************************************************)
(* novajoin: the IPA client session (novajoin/ipa.py).                     *)
(*                                                                         *)
(* One IPAClient and the RPC channel it drives.  The directory and the     *)
(* Kerberos library are the environment: every connect(), ping and command *)
(* ends in success, a credential error (CCacheError, TicketExpired,        *)
(* KerberosError), a NetworkError or another error, chosen freely.  A      *)
(* command called on a channel that is not connected cannot succeed.       *)
(* ipalib is taken to be importable (ipalib_imported = True).              *)
(*                                                                         *)
(* The operations of IPAClient, JoinController.create and the notification *)
(* handlers are modelled a second time, under SpecOps, against a directory *)
(* with state: there every _call_ipa is one step that ends as the          *)
(* directory decides (or in an error), and requests of several workers     *)
(* interleave between these steps.                                         *)
(***************************************************************************)
EXTENDS Integers, Sequences, FiniteSets, TLC

(* ------------------------------ bounds -------------------------------- *)
\* largest value of the connect_retries option that is explored
MaxRetries == 2
\* connection attempts explored within one public operation
MaxAttempts == 3
\* command calls explored within one public operation
MaxSends == 3
\* longest batch queue explored
MaxBatch == 2
\* backoff sleeps explored over the life of the client
MaxSleeps == 2
\* one-time passwords generated in a run of SpecOps
MaxOtp == 2
\* operations begun in a run of SpecOps or SpecDirect
MaxOps == 3
\* IPAClient objects made in a run of SpecKrb
MaxCaches == 4
\* longest principal given to split_principal
MaxLen == 5
\* calls of _call_and_handle_error begun in a run of SpecRetry
MaxCalls == 3
\* largest value of the glance_num_retries option that is explored
MaxGlanceRetries == 3

\* hooks.py:84-88: the error codes of IPA that the hooks name
IPA_INVALID_DATA == 3009
IPA_NOT_FOUND == 4001
IPA_DUPLICATE == 4002
IPA_NO_DNS_RECORD == 4019
IPA_NO_CHANGES == 4202

(* ------------------------- program constants -------------------------- *)
\* ipa.py:127  "if self.backoff < 1024"
BackoffCap == 1024
\* ipa.py:128  "self.backoff = self.backoff * 2"
BackoffFactor == 2
\* notifications.py:44  BACKOFF = 2
BACKOFF == 2

\* values of the constructor's backoff parameter: 0 is the HTTP service
\* (join.py:83), BACKOFF the notification listener; the others are further
\* positive values of the parameter
BackoffInits == {0, BACKOFF, 600}

\* batched commands: (method, first positional parameter)
BatchCmds == {<<"host_add", "h1">>, <<"service_add", "s1">>}
\* commands issued directly through _call_ipa
SingleCmds == {<<"host_del", "h1">>}

Stages == {"connect", "ping"}
\* fully-qualified hostnames of instances
Hostnames == {"h1", "h2"}
\* threads that serve requests and notifications
Workers == {"w1", "w2"}
\* the IPAClient objects of one process (notifications.py:47-48, one for each
\* notification that is being handled)
Sessions == {"s1", "s2"}

VARIABLES
    ntries,        \* self.ntries = CONF.connect_retries
    backoff,       \* self.backoff
    batch_args,    \* self.batch_args
    connected,     \* api.Backend.rpcclient.isconnected()
    pc,            \* "idle" | "conn" (in __get_connection) | "send" (in _call_ipa's loop)
    tries,         \* local variable tries of __get_connection
    cmd,           \* (command, args) of the running _call_ipa
    op,            \* the public operation running, or the last one that ran
    result,        \* how the last public operation ended
    sent,          \* history: the api.Command[command] calls of this operation
    live,          \* history: the last connect() and ping succeeded, no disconnect since
    backoff0,      \* history: the backoff the client was constructed with
    added,         \* history: commands added since the last start_batch_operation
    called,        \* history: this operation entered _call_ipa
    attempts,      \* history: connection attempts of this run of __get_connection
    callAttempts,  \* history: connection attempts of this operation
    runs,          \* history: runs of __get_connection in this operation
    exhausted,     \* history: the last run of __get_connection ended without a connection
    connOk,        \* history: successful connection attempts of this operation
    connCred,      \* history: connection attempts of this operation failed by a credential error
    kinits,        \* history: calls of kinit_keytab made by __get_connection in this operation
    connNet,       \* history: connection attempts of this operation failed by NetworkError
    cmdCred,       \* history: command calls of this operation failed by a credential error
    cmdNet,        \* history: command calls of this operation failed by NetworkError
    sentDead,      \* history: a command of this operation was called on a channel that was not live
    nsleeps,       \* history: backoff sleeps of the client
    lastSleep,     \* history: length of the last backoff sleep
    configured,    \* _ipa_client_configured(): /etc/ipa/default.conf exists
    dirHosts,      \* directory: the host entries
    dirOtp,        \* directory: the one-time password stored for a host, 0 for none
    dirKeytab,     \* directory: the hosts that are enrolled (the OTP was consumed)
    dirDns,        \* directory: the names that have DNS records
    nextOtp,       \* the next value uuid.uuid4() gives
    wpc,           \* per worker: position in the operation it runs
    wop,           \* per worker: the operation it runs, or the last one it ran
    whost,         \* per worker: the hostname the operation is about
    wotp,          \* per worker: the ipaotp of the operation, 0 for none
    wres,          \* per worker: what the IPAClient operation returned
    wdata,         \* per worker: the keys of the response of create
    wend,          \* per worker: how the handler ended
    wsent,         \* per worker, history: the directory commands of the operation
    wlast,         \* per worker, history: how the last command of the operation ended
    wstored,       \* per worker, history: the directory stored the OTP of the operation
    wlookup,       \* per worker, history: the operation called get_instance
    wenroll,       \* per worker, history: the request or event asked for enrollment
    nops,          \* history: operations begun under SpecOps or SpecDirect
    hreq,          \* hooks: ipareq['method'] of the request, in its parts
    hresp,         \* hooks: resp['error'] of the answer: <<>> for null, else <<code>>
    hexc,          \* hooks: what _ipa_error_to_exception returned
    hout,          \* hooks: how _call_and_handle_error ended
    abody,         \* per worker: the keys of the body of the create request, <<>> for no body
    ameta,         \* per worker: body['metadata'] of the create request
    aauth,         \* per worker: the context of the request passes the join:create policy
    apc,           \* per worker: position in JoinController.create
    acalls,        \* per worker, history: the services the request has called
    aadded,        \* per worker, history: the commands the request added to the batch queue
    aflushed,      \* per worker, history: the batch the request sent, <<>> for none
    aend,          \* per worker: the status the request ended with
    nev,           \* listener: the notification being handled, or the last one
    npc,           \* listener: position in the handler
    nran,          \* listener, history: the body of the handler was entered
    nsent,         \* listener, history: the directory commands sent for the notification
    nend,          \* listener: how info() ended
    dirService,    \* directory: the entry of the managed service exists
    dirManagedBy,  \* directory: managedby_host of the managed service
    dirA,          \* directory: the A record of the floating IP exists
    krb5ccname,    \* os.environ['KRB5CCNAME'] of the process, 0 when unset
    ccache,        \* per session: self.ccache, 0 before the session is made
    tickets,       \* the credential caches that hold a valid ticket
    finalized,     \* api.isdone('finalize')
    nextCache,     \* the next value uuid.uuid4() gives for a cache name
    cused,         \* per session, history: the cache its last connection used, 0 for none
    ufun,          \* the function that is applied: split_principal or get_compact_services
    uprincipal,    \* the argument of split_principal, a string as its characters
    umetadata,     \* the argument of get_compact_services: key -> value
    ures,          \* what the function returned or raised, <<>> before it ran
    hretries,      \* hooks: CONF.connect_retries
    hntries,       \* hooks: self.ntries of the hook
    htoken,        \* hooks: session.auth.token is set
    need_reauth,   \* hooks: local variable need_reauth of _call_and_handle_error
    hpc,           \* hooks: "idle" | "loop" (in the loop of _call_and_handle_error)
    hposts,        \* hooks, history: requests posted in this call
    hfails,        \* hooks, history: authentication failures of this call
    hstart,        \* hooks, history: self.ntries when this call began
    hhow,          \* hooks: how the last call ended
    hcalls,        \* hooks, history: calls begun
    gretries,      \* glance: CONF.glance_num_retries
    gmethod,       \* glance: the method of the call
    gctl,          \* glance: the controller the caller asked for
    gkwargs,       \* glance: the keys of kwargs
    gattempt,      \* glance: the loop variable attempt
    gused,         \* glance, history: the controller each attempt used
    glast,         \* glance, history: how the last attempt ended
    gpc,           \* glance: "idle" | "loop" (in the loop of call)
    gend           \* glance: how the last call ended

client == <<ntries, backoff, batch_args, backoff0>>
channel == <<connected, live>>
control == <<pc, tries, cmd, op, result>>
callHist == <<sent, called, attempts, callAttempts, runs, exhausted, connOk,
              connCred, kinits, connNet, cmdCred, cmdNet, sentDead>>
sleepHist == <<nsleeps, lastSleep>>
session == <<ntries, backoff, backoff0, channel, control, callHist, sleepHist, added>>
directory == <<dirHosts, dirOtp, dirKeytab, dirDns>>
workers == <<wpc, wop, whost, wotp, wres, wdata, wend, wsent, wlast, wstored, wlookup,
            wenroll>>
ops == <<configured, directory, nextOtp, workers, nops>>
hook == <<hreq, hresp, hexc, hout>>
api == <<abody, ameta, aauth, apc, acalls, aadded, aflushed, aend>>
notif == <<nev, npc, nran, nsent, nend, dirService, dirManagedBy, dirA>>
krb == <<krb5ccname, ccache, tickets, finalized, nextCache, cused>>
util == <<ufun, uprincipal, umetadata, ures>>
retry == <<hretries, hntries, htoken, need_reauth, hpc, hposts, hfails, hstart, hhow, hcalls>>
glance == <<gretries, gmethod, gctl, gkwargs, gattempt, gused, glast, gpc, gend>>
ext == <<api, notif, krb, util, retry, glance>>
vars == <<client, channel, control, callHist, sleepHist, added, ops, hook, ext>>

NoCmd == <<"none", "none">>

\* no notification
NoEvent == [type |-> "none", ver |-> <<>>, enroll |-> FALSE, svc |-> FALSE, port |-> FALSE]

\* join.py:120: body.get('metadata', {}) of a body without metadata
NoMeta == [enroll |-> FALSE, hostclass |-> FALSE, services |-> <<>>]

Results == {"none", "None", "result", "NetworkError", "Error", "CredentialError"}
Failures == {"NetworkError", "Error", "CredentialError"}

(* ------------------------------ helpers ------------------------------- *)

\* a loop condition that joins its two tests with "and"
LoopCondAnd(t, b) == (t <= ntries) /\ (b > 0)

\* a loop condition that allows one attempt more
LoopCondOffByOne(t, b) == (t <= ntries + 1) \/ (b > 0)

\* a NetworkError of the command that is always retried
CmdNetRetriesAlways(b) == TRUE

\* a NetworkError of the command that is always raised
CmdNetRetriesNever(b) == FALSE

\* an add that puts the command at the head of the queue
PrependBatch(q, c) == <<c>> \o q

\* a flush that does not test the queue
FlushCallsAlways(q) == TRUE

\* a flush that clears the queue when it returns
ClearedAfterFlush(q) == <<>>

\* ipa.py:127-128: the stored backoff after one __backoff()
NextBackoff(b) == IF b < BackoffCap THEN b * BackoffFactor ELSE b

\* ipa.py:134: the condition of the reconnect loop
LoopCond(t, b) == (t <= ntries) \/ (b > 0)

\* a credential failure that sleeps after the first attempt of the run too
CredSleepsAlways(t, b) == b # 0

\* ipa.py:156: a credential failure of a connection attempt sleeps
CredSleeps(t, b) == t > 0 /\ b # 0

\* ipa.py:161: a NetworkError of a connection attempt sleeps
NetSleeps(b) == b # 0

\* ipa.py:211-214: a NetworkError of the command backs off and calls the
\* command again; otherwise it is raised
CmdNetRetries(b) == b # 0

\* ipa.py:177-180: the queue after _add_batch_operation
AppendBatch(q, c) == Append(q, c)

\* ipa.py:185: flush_batch_operation goes on to _call_ipa
FlushCalls(q) == q # <<>>

\* ipa.py:182-191: the queue after flush_batch_operation returned a result
QueueAfterFlush(q) == q

\* the history of one operation, at its start
FreshHist ==
    /\ sent' = <<>>
    /\ called' = FALSE
    /\ attempts' = 0
    /\ callAttempts' = 0
    /\ runs' = 0
    /\ exhausted' = FALSE
    /\ connOk' = 0
    /\ connCred' = 0
    /\ kinits' = 0
    /\ connNet' = 0
    /\ cmdCred' = 0
    /\ cmdNet' = 0
    /\ sentDead' = FALSE

\* ipa.py:124-128: __backoff() when sleeping is TRUE, nothing otherwise
Backoff(sleeping) ==
    IF sleeping
    THEN /\ lastSleep' = backoff
         /\ nsleeps' = nsleeps + 1
         /\ backoff' = NextBackoff(backoff)
    ELSE UNCHANGED <<lastSleep, nsleeps, backoff>>

\* ipa.py:130-134: entering __get_connection: tries = 0 and the first test of
\* the loop condition; r counts the runs of this operation so far
EnterGetConnection(r) ==
    /\ tries' = 0
    /\ attempts' = 0
    /\ runs' = r + 1
    /\ IF LoopCond(0, backoff)
       THEN pc' = "conn" /\ exhausted' = FALSE
       ELSE pc' = "send" /\ exhausted' = TRUE

(* ------------------------------- Init --------------------------------- *)

\* ipa.py:52-68: the client after construction
SessionInit ==
    /\ ntries \in 0..MaxRetries
    /\ backoff0 \in BackoffInits
    /\ backoff = backoff0
    /\ batch_args = <<>>
    /\ connected = FALSE
    /\ live = FALSE
    /\ pc = "idle"
    /\ tries = 0
    /\ cmd = NoCmd
    /\ op = "init"
    /\ result = "none"
    /\ sent = <<>>
    /\ added = <<>>
    /\ called = FALSE
    /\ attempts = 0
    /\ callAttempts = 0
    /\ runs = 0
    /\ exhausted = FALSE
    /\ connOk = 0
    /\ connCred = 0
    /\ kinits = 0
    /\ connNet = 0
    /\ cmdCred = 0
    /\ cmdNet = 0
    /\ sentDead = FALSE
    /\ nsleeps = 0
    /\ lastSleep = 0

\* an empty directory and idle workers
OpsInit ==
    /\ configured \in BOOLEAN
    /\ dirHosts = {}
    /\ dirOtp = [h \in Hostnames |-> 0]
    /\ dirKeytab = {}
    /\ dirDns = {}
    /\ nextOtp = 1
    /\ nops = 0
    /\ wpc = [w \in Workers |-> "idle"]
    /\ wop = [w \in Workers |-> "none"]
    /\ whost = [w \in Workers |-> "none"]
    /\ wotp = [w \in Workers |-> 0]
    /\ wres = [w \in Workers |-> "none"]
    /\ wdata = [w \in Workers |-> {}]
    /\ wend = [w \in Workers |-> "none"]
    /\ wsent = [w \in Workers |-> <<>>]
    /\ wlast = [w \in Workers |-> "none"]
    /\ wstored = [w \in Workers |-> FALSE]
    /\ wlookup = [w \in Workers |-> FALSE]
    /\ wenroll = [w \in Workers |-> FALSE]

\* the hook before a request
HookInit ==
    /\ hreq = <<>>
    /\ hresp = <<>>
    /\ hexc = "none"
    /\ hout = "none"

\* join.py:37-38, 81-83: the controller and its client, no request yet
ApiInit ==
    /\ abody = [w \in Workers |-> <<>>]
    /\ ameta = [w \in Workers |-> NoMeta]
    /\ aauth = [w \in Workers |-> TRUE]
    /\ apc = [w \in Workers |-> "idle"]
    /\ acalls = [w \in Workers |-> <<>>]
    /\ aadded = [w \in Workers |-> <<>>]
    /\ aflushed = [w \in Workers |-> <<>>]
    /\ aend = [w \in Workers |-> "none"]

\* the listener before its first notification; no service is registered
NotifInit ==
    /\ nev = NoEvent
    /\ npc = "idle"
    /\ nran = FALSE
    /\ nsent = <<>>
    /\ nend = "none"
    /\ dirService = FALSE
    /\ dirManagedBy = {}
    /\ dirA = FALSE

\* a process that has made no IPAClient yet
KrbInit ==
    /\ krb5ccname = 0
    /\ ccache = [s \in Sessions |-> 0]
    /\ tickets = {}
    /\ finalized = FALSE
    /\ nextCache = 1
    /\ cused = [s \in Sessions |-> 0]

\* no function is applied
UtilInit ==
    /\ ufun = "none"
    /\ uprincipal = <<>>
    /\ umetadata = <<>>
    /\ ures = <<>>

\* no hook object yet
RetryInit ==
    /\ hretries = 0
    /\ hntries = 0
    /\ htoken = FALSE
    /\ need_reauth = FALSE
    /\ hpc = "none"
    /\ hposts = 0
    /\ hfails = 0
    /\ hstart = 0
    /\ hhow = "none"
    /\ hcalls = 0

\* glance.py:68-76: the client before its first call
GlanceInit ==
    /\ gretries = 0
    /\ gmethod = "none"
    /\ gctl = "none"
    /\ gkwargs = {}
    /\ gattempt = 0
    /\ gused = <<>>
    /\ glast = "none"
    /\ gpc = "idle"
    /\ gend = "none"

ExtInit == ApiInit /\ NotifInit /\ KrbInit /\ UtilInit /\ RetryInit /\ GlanceInit

Init ==
    /\ SessionInit
    /\ OpsInit
    /\ configured
    /\ HookInit
    /\ ExtInit

(* ------------------------- public operations -------------------------- *)

\* ipa.py:166-173
start_batch_operation ==
    /\ pc = "idle"
    /\ op' = "start"
    /\ batch_args' = <<>>
    /\ added' = <<>>
    /\ result' = "None"
    /\ FreshHist
    /\ UNCHANGED <<ntries, backoff, backoff0, channel, pc, tries, cmd, sleepHist>>
    /\ UNCHANGED <<ops, hook, ext>>

\* ipa.py:175-180
add_batch_operation(c) ==
    /\ pc = "idle"
    /\ Len(batch_args) < MaxBatch
    /\ op' = "add"
    /\ batch_args' = AppendBatch(batch_args, c)
    /\ added' = Append(added, c)
    /\ result' = "None"
    /\ FreshHist
    /\ UNCHANGED <<ntries, backoff, backoff0, channel, pc, tries, cmd, sleepHist>>
    /\ UNCHANGED <<ops, hook, ext>>

\* ipa.py:193-196: _call_ipa(c) up to its loop
BeginCall(c) ==
    /\ cmd' = c
    /\ result' = "none"
    /\ sent' = <<>>
    /\ called' = TRUE
    /\ callAttempts' = 0
    /\ connOk' = 0
    /\ connCred' = 0
    /\ kinits' = 0
    /\ connNet' = 0
    /\ cmdCred' = 0
    /\ cmdNet' = 0
    /\ sentDead' = FALSE
    /\ IF ~connected
       THEN EnterGetConnection(0)
       ELSE /\ pc' = "send"
            /\ tries' = tries
            /\ attempts' = 0
            /\ runs' = 0
            /\ exhausted' = FALSE
    /\ UNCHANGED <<client, channel, sleepHist, added>>

\* ipa.py:182-191
flush_batch_operation ==
    /\ pc = "idle"
    /\ op' = "flush"
    /\ IF FlushCalls(batch_args)
       THEN BeginCall(<<"batch", batch_args>>)
       ELSE /\ result' = "None"
            /\ FreshHist
            /\ UNCHANGED <<client, channel, pc, tries, cmd, sleepHist, added>>
    /\ UNCHANGED <<ops, hook, ext>>

\* ipa.py:193-214 called for one command, as the operations of IPAClient do
\* (ipa.py:280, 330, 356, 403, 426, 436, 451)
call_ipa(c) ==
    /\ pc = "idle"
    /\ op' = "call"
    /\ BeginCall(c)
    /\ UNCHANGED <<ops, hook, ext>>

(* ---------------------- __get_connection, one attempt ----------------- *)

\* after a failed attempt: ipa.py:134, the loop condition again
LoopAgain ==
    IF LoopCond(tries + 1, backoff')
    THEN pc' = "conn" /\ tries' = tries + 1 /\ exhausted' = exhausted
    ELSE pc' = "send" /\ tries' = 0 /\ exhausted' = TRUE

CountAttempt ==
    /\ attempts' = attempts + 1
    /\ callAttempts' = callAttempts + 1

\* a connection that puts the stored backoff back to its first value
ConnectOkResets ==
    /\ pc = "conn"
    /\ callAttempts < MaxAttempts
    /\ connected' = TRUE
    /\ live' = TRUE
    /\ pc' = "send"
    /\ CountAttempt
    /\ connOk' = connOk + 1
    /\ tries' = 0
    /\ backoff' = backoff0
    /\ UNCHANGED <<ntries, batch_args, backoff0, cmd, op, result, sent, called, runs,
                   exhausted, connCred, kinits, connNet, cmdCred, cmdNet, sentDead,
                   sleepHist, added>>
    /\ UNCHANGED <<ops, hook, ext>>

\* ipa.py:137-143 and 163-164: connect() and ping succeed
ConnectOk ==
    /\ pc = "conn"
    /\ callAttempts < MaxAttempts
    /\ connected' = TRUE
    /\ live' = TRUE
    /\ pc' = "send"
    /\ CountAttempt
    /\ connOk' = connOk + 1
    /\ tries' = 0
    /\ UNCHANGED <<client, cmd, op, result, sent, called, runs, exhausted,
                   connCred, kinits, connNet, cmdCred, cmdNet, sentDead, sleepHist, added>>
    /\ UNCHANGED <<ops, hook, ext>>

\* ipa.py:137-158: connect() or ping raises a credential error; kinit again
\* (a GSSError of kinit is swallowed), back off, count
ConnectCredError(stage) ==
    /\ pc = "conn"
    /\ callAttempts < MaxAttempts
    /\ CredSleeps(tries, backoff) => nsleeps < MaxSleeps
    /\ connected' = (stage = "ping")
    /\ live' = FALSE
    /\ Backoff(CredSleeps(tries, backoff))
    /\ LoopAgain
    /\ CountAttempt
    /\ connCred' = connCred + 1
    /\ kinits' = kinits + 1
    /\ UNCHANGED <<ntries, batch_args, backoff0, cmd, op, result, sent, called, runs,
                   connOk, connNet, cmdCred, cmdNet, sentDead, added>>
    /\ UNCHANGED <<ops, hook, ext>>

\* ipa.py:137-143 and 159-162: connect() or ping raises NetworkError
ConnectNetworkError(stage) ==
    /\ pc = "conn"
    /\ callAttempts < MaxAttempts
    /\ NetSleeps(backoff) => nsleeps < MaxSleeps
    /\ connected' = (stage = "ping")
    /\ live' = FALSE
    /\ Backoff(NetSleeps(backoff))
    /\ LoopAgain
    /\ CountAttempt
    /\ connNet' = connNet + 1
    /\ UNCHANGED <<ntries, batch_args, backoff0, cmd, op, result, sent, called, runs,
                   connOk, connCred, kinits, cmdCred, cmdNet, sentDead, added>>
    /\ UNCHANGED <<ops, hook, ext>>

\* ipa.py:137-143: connect() or ping raises an error that no handler catches;
\* it leaves __get_connection and _call_ipa
ConnectOtherError(stage) ==
    /\ pc = "conn"
    /\ callAttempts < MaxAttempts
    /\ connected' = (stage = "ping")
    /\ live' = FALSE
    /\ pc' = "idle"
    /\ result' = "Error"
    /\ tries' = 0
    /\ CountAttempt
    /\ UNCHANGED <<client, cmd, op, sent, called, runs, exhausted, connOk,
                   connCred, kinits, connNet, cmdCred, cmdNet, sentDead, sleepHist, added>>
    /\ UNCHANGED <<ops, hook, ext>>

(* ------------------------ _call_ipa, one command call ----------------- *)

\* ipa.py:202: api.Command[command](*args, **kw) is called
CallCommand ==
    /\ pc = "send"
    /\ Len(sent) < MaxSends
    /\ sent' = Append(sent, cmd)
    /\ sentDead' = (sentDead \/ ~(connected /\ live))

\* ipa.py:202-204: the command returns its result
CommandOk ==
    /\ CallCommand
    /\ connected
    /\ pc' = "idle"
    /\ result' = "result"
    /\ batch_args' = IF op = "flush" THEN QueueAfterFlush(batch_args) ELSE batch_args
    /\ UNCHANGED <<ntries, backoff, backoff0, channel, tries, cmd, op, called, attempts,
                   callAttempts, runs, exhausted, connOk, connCred, kinits, connNet, cmdCred,
                   cmdNet, sleepHist, added>>
    /\ UNCHANGED <<ops, hook, ext>>

\* a _call_ipa that reconnects once and raises the second credential error
CommandCredErrorOnce ==
    /\ CallCommand
    /\ cmdCred' = cmdCred + 1
    /\ IF cmdCred = 0
       THEN EnterGetConnection(runs) /\ result' = result
       ELSE /\ pc' = "idle"
            /\ result' = "CredentialError"
            /\ UNCHANGED <<tries, attempts, runs, exhausted>>
    /\ UNCHANGED <<client, channel, cmd, op, called, callAttempts, connOk,
                   connCred, kinits, connNet, cmdNet, sleepHist, added>>
    /\ UNCHANGED <<ops, hook, ext>>

\* ipa.py:205-209: the command raises a credential error: __get_connection,
\* then the loop of _call_ipa calls the command again
CommandCredError ==
    /\ CallCommand
    /\ cmdCred' = cmdCred + 1
    /\ EnterGetConnection(runs)
    /\ UNCHANGED <<client, channel, cmd, op, result, called, callAttempts, connOk,
                   connCred, kinits, connNet, cmdNet, sleepHist, added>>
    /\ UNCHANGED <<ops, hook, ext>>

\* ipa.py:210-214: the command raises NetworkError
CommandNetworkError ==
    /\ CallCommand
    /\ CmdNetRetries(backoff) => nsleeps < MaxSleeps
    /\ cmdNet' = cmdNet + 1
    /\ Backoff(CmdNetRetries(backoff))
    /\ IF CmdNetRetries(backoff)
       THEN pc' = "send" /\ result' = result
       ELSE pc' = "idle" /\ result' = "NetworkError"
    /\ UNCHANGED <<ntries, batch_args, backoff0, channel, tries, cmd, op, called,
                   attempts, callAttempts, runs, exhausted, connOk, connCred, kinits, connNet,
                   cmdCred, added>>
    /\ UNCHANGED <<ops, hook, ext>>

\* a _call_ipa that empties the queue when the command raises
CommandOtherErrorClears ==
    /\ CallCommand
    /\ pc' = "idle"
    /\ result' = "Error"
    /\ batch_args' = <<>>
    /\ UNCHANGED <<ntries, backoff, backoff0, channel, tries, cmd, op, called, attempts,
                   callAttempts, runs, exhausted, connOk, connCred, kinits, connNet, cmdCred,
                   cmdNet, sleepHist, added>>
    /\ UNCHANGED <<ops, hook, ext>>

\* ipa.py:202: the command raises an error that _call_ipa does not catch
\* (NotFound, DuplicateEntry, ..., or the library's error for a channel that
\* is not connected)
CommandOtherError ==
    /\ CallCommand
    /\ pc' = "idle"
    /\ result' = "Error"
    /\ UNCHANGED <<client, channel, tries, cmd, op, called, attempts, callAttempts,
                   runs, exhausted, connOk, connCred, kinits, connNet, cmdCred, cmdNet,
                   sleepHist, added>>
    /\ UNCHANGED <<ops, hook, ext>>

Next ==
    \/ start_batch_operation
    \/ \E c \in BatchCmds : add_batch_operation(c)
    \/ flush_batch_operation
    \/ \E c \in SingleCmds : call_ipa(c)
    \/ ConnectOk
    \/ \E s \in Stages : ConnectCredError(s)
    \/ \E s \in Stages : ConnectNetworkError(s)
    \/ \E s \in Stages : ConnectOtherError(s)
    \/ CommandOk
    \/ CommandCredError
    \/ CommandNetworkError
    \/ CommandOtherError

Spec == Init /\ [][Next]_vars

(* --------------- the listener's client: failures that stop ------------- *)

\* notifications.py:44-48: the client of the listener, IPAClient(backoff=BACKOFF),
\* or one made with another positive backoff
InitListener ==
    /\ Init
    /\ backoff0 > 0

\* the client with no failure but credential errors and NetworkError, which
\* stop: in a _call_ipa the failures leave room for one more connection
\* attempt and one more call of the command
NextListener ==
    \/ start_batch_operation
    \/ \E c \in BatchCmds : add_batch_operation(c)
    \/ flush_batch_operation
    \/ \E c \in SingleCmds : call_ipa(c)
    \/ ConnectOk
    \/ callAttempts < MaxAttempts - 1 /\ \E s \in Stages : ConnectCredError(s)
    \/ callAttempts < MaxAttempts - 1 /\ \E s \in Stages : ConnectNetworkError(s)
    \/ CommandOk
    \/ callAttempts < MaxAttempts /\ Len(sent) < MaxSends - 1 /\ CommandCredError
    \/ Len(sent) < MaxSends - 1 /\ CommandNetworkError

\* ipa.py:134-164, 200-214: both loops go on to their next attempt by
\* themselves; the failures stop, so an attempt that can succeed does
SpecListener ==
    InitListener /\ [][NextListener]_vars /\ WF_vars(ConnectOk) /\ WF_vars(CommandOk)

(* ====================== operations on a directory ====================== *)

\* the values of ipa_enroll that are explored: <<in the instance metadata, in
\* the image properties>>
EnrollCases == {<<"", "">>, <<"false", "">>, <<"True", "">>, <<"", "true">>}

\* str.lower() on the values of ipa_enroll (join.py:140, notifications.py:153)
Lower(v) == IF v = "True" THEN "true" ELSE v

\* join.py:138-164, notifications.py:151-153, 188-191: enrollment is requested
\* in the instance metadata m or in the image properties i
Enrolls(m, i) == Lower(m) = "true" \/ Lower(i) = "true"

\* how the directory answers host_mod(h, userpassword) when it answers
DirHostMod(h) ==
    IF h \notin dirHosts THEN "NotFound"
    ELSE IF h \in dirKeytab THEN "ValidationError"
    ELSE "ok"

\* how the directory answers host_add(h, force) when it answers
DirHostAdd(h) == IF h \in dirHosts THEN "DuplicateEntry" ELSE "ok"

\* how the directory answers host_del(h, updatedns=False) when it answers
DirHostDel(h) == IF h \in dirHosts THEN "ok" ELSE "NotFound"

\* how the directory answers dnsrecord_del(domain, hn, del_all) when it answers
DirDnsDel(h) == IF h \in dirDns THEN "ok" ELSE "NotFound"

\* ipa.py:61-66, 195-202: the ways a command can end, S being the answers of
\* the directory to it; a client that is not configured never bootstraps the
\* API and reaches no directory, its _call_ipa raises
Answers(S) == IF configured THEN S \cup {"Error"} ELSE {"Error"}

\* worker w begins operation o on host h: the history of the operation is fresh
Begin(w, o, h) ==
    /\ wpc[w] = "idle"
    /\ nops < MaxOps
    /\ nops' = nops + 1
    /\ wop' = [wop EXCEPT ![w] = o]
    /\ whost' = [whost EXCEPT ![w] = h]
    /\ wres' = [wres EXCEPT ![w] = "none"]
    /\ wsent' = [wsent EXCEPT ![w] = <<>>]
    /\ wlast' = [wlast EXCEPT ![w] = "none"]
    /\ wstored' = [wstored EXCEPT ![w] = FALSE]

\* an operation of IPAClient called directly: no response is built, no instance
\* is looked up
Direct(w) ==
    /\ wdata' = [wdata EXCEPT ![w] = {}]
    /\ wlookup' = [wlookup EXCEPT ![w] = FALSE]
    /\ wenroll' = [wenroll EXCEPT ![w] = TRUE]
    /\ wend' = [wend EXCEPT ![w] = "none"]

\* worker w calls _call_ipa(c, ...), which ends in out: one more command of
\* its operation
Sends(w, c, out) ==
    /\ wsent' = [wsent EXCEPT ![w] = Append(@, c)]
    /\ wlast' = [wlast EXCEPT ![w] = out]

\* join.py:199-207 for a worker in create, else the end of the operation:
\* add_host has returned r ("True", "False") or raised ("raised")
AfterAddHost(w, r) ==
    /\ wres' = [wres EXCEPT ![w] = r]
    /\ IF wop[w] = "create"
       THEN /\ wpc' = [wpc EXCEPT ![w] = "start_batch"]
            /\ wdata' = [wdata EXCEPT ![w] = IF r = "False" THEN @ \ {"ipaotp"} ELSE @]
            /\ wend' = wend
       ELSE /\ wpc' = [wpc EXCEPT ![w] = "idle"]
            /\ wend' = [wend EXCEPT ![w] = IF r = "raised" THEN "raised" ELSE "returned"]
            /\ wdata' = wdata

\* the operation of worker w ends: e is "returned", "raised" or an HTTP status
Ends(w, e) ==
    /\ wpc' = [wpc EXCEPT ![w] = "idle"]
    /\ wend' = [wend EXCEPT ![w] = e]

(* ------------------------------ add_host ------------------------------ *)

\* ipa.py:229: add_host(h, ipaotp) called on a client, with a fresh ipaotp
add_host(w, h) ==
    /\ Begin(w, "add_host", h)
    /\ nextOtp <= MaxOtp
    /\ Direct(w)
    /\ wotp' = [wotp EXCEPT ![w] = nextOtp]
    /\ nextOtp' = nextOtp + 1
    /\ wpc' = [wpc EXCEPT ![w] = "add_host"]
    /\ UNCHANGED <<configured, directory, batch_args, session, hook, ext>>

\* an add_host without the test of the configuration
AddHostEnterUnchecked(w) ==
    /\ wpc[w] = "add_host"
    /\ wpc' = [wpc EXCEPT ![w] = "host_mod"]
    /\ UNCHANGED <<wres, wdata, wend>>
    /\ UNCHANGED <<configured, directory, nextOtp, batch_args, session, hook, ext, nops,
                   wop, whost, wotp, wsent, wlast, wstored, wlookup, wenroll>>

\* ipa.py:242-277: add_host up to its first command
AddHostEnter(w) ==
    /\ wpc[w] = "add_host"
    /\ IF ~configured
       THEN AfterAddHost(w, "False")
       ELSE /\ wpc' = [wpc EXCEPT ![w] = "host_mod"]
            /\ UNCHANGED <<wres, wdata, wend>>
    /\ UNCHANGED <<configured, directory, nextOtp, batch_args, session, hook, ext, nops,
                   wop, whost, wotp, wsent, wlast, wstored, wlookup, wenroll>>

\* an add_host that falls back to host_add after ValidationError of host_mod too
HostModAddsAfterValidationError(w, out) ==
    /\ wpc[w] = "host_mod"
    /\ out \in Answers({DirHostMod(whost[w])})
    /\ Sends(w, "host_mod", out)
    /\ dirOtp' = IF out = "ok" THEN [dirOtp EXCEPT ![whost[w]] = wotp[w]] ELSE dirOtp
    /\ wstored' = [wstored EXCEPT ![w] = (out = "ok")]
    /\ CASE out = "ok" -> AfterAddHost(w, "True")
         [] out \in {"NotFound", "ValidationError"} ->
                /\ wpc' = [wpc EXCEPT ![w] = "host_add"]
                /\ UNCHANGED <<wres, wdata, wend>>
         [] OTHER -> AfterAddHost(w, "raised")
    /\ UNCHANGED <<configured, dirHosts, dirKeytab, dirDns, nextOtp, batch_args,
                   session, hook, ext, nops, wop, whost, wotp, wlookup, wenroll>>

\* ipa.py:279-290: _call_ipa('host_mod', h, userpassword=ipaotp) and its handlers
HostMod(w, out) ==
    /\ wpc[w] = "host_mod"
    /\ out \in Answers({DirHostMod(whost[w])})
    /\ Sends(w, "host_mod", out)
    /\ dirOtp' = IF out = "ok" THEN [dirOtp EXCEPT ![whost[w]] = wotp[w]] ELSE dirOtp
    /\ wstored' = [wstored EXCEPT ![w] = (out = "ok")]
    /\ CASE out = "ok" -> AfterAddHost(w, "True")
         [] out = "NotFound" -> /\ wpc' = [wpc EXCEPT ![w] = "host_add"]
                                /\ UNCHANGED <<wres, wdata, wend>>
         [] out = "ValidationError" -> AfterAddHost(w, "False")
         [] OTHER -> AfterAddHost(w, "raised")
    /\ UNCHANGED <<configured, dirHosts, dirKeytab, dirDns, nextOtp, batch_args,
                   session, hook, ext, nops, wop, whost, wotp, wlookup, wenroll>>

\* an add_host that lets DuplicateEntry of host_add out
HostAddRaisesDuplicate(w, out) ==
    /\ wpc[w] = "host_add"
    /\ out \in Answers({DirHostAdd(whost[w]), "ValidationError"})
    /\ Sends(w, "host_add", out)
    /\ dirHosts' = IF out = "ok" THEN dirHosts \cup {whost[w]} ELSE dirHosts
    /\ dirOtp' = IF out = "ok" THEN [dirOtp EXCEPT ![whost[w]] = wotp[w]] ELSE dirOtp
    /\ wstored' = [wstored EXCEPT ![w] = (out = "ok")]
    /\ IF out \in {"ok", "ValidationError"}
       THEN AfterAddHost(w, "True")
       ELSE AfterAddHost(w, "raised")
    /\ UNCHANGED <<configured, dirKeytab, dirDns, nextOtp, batch_args, session, hook, ext, nops,
                   wop, whost, wotp, wlookup, wenroll>>

\* ipa.py:282-286, 292: _call_ipa('host_add', h, userpassword=ipaotp, force=True)
\* and its handler
HostAdd(w, out) ==
    /\ wpc[w] = "host_add"
    /\ out \in Answers({DirHostAdd(whost[w]), "ValidationError"})
    /\ Sends(w, "host_add", out)
    /\ dirHosts' = IF out = "ok" THEN dirHosts \cup {whost[w]} ELSE dirHosts
    /\ dirOtp' = IF out = "ok" THEN [dirOtp EXCEPT ![whost[w]] = wotp[w]] ELSE dirOtp
    /\ wstored' = [wstored EXCEPT ![w] = (out = "ok")]
    /\ IF out \in {"ok", "DuplicateEntry", "ValidationError"}
       THEN AfterAddHost(w, "True")
       ELSE AfterAddHost(w, "raised")
    /\ UNCHANGED <<configured, dirKeytab, dirDns, nextOtp, batch_args, session, hook, ext, nops,
                   wop, whost, wotp, wlookup, wenroll>>

\* the instance enrolls with its one-time password: the directory accepts the
\* password once, gives the host its keytab and records its address
Enroll(h) ==
    /\ h \in dirHosts
    /\ dirOtp[h] # 0
    /\ dirOtp' = [dirOtp EXCEPT ![h] = 0]
    /\ dirKeytab' = dirKeytab \cup {h}
    /\ dirDns' = dirDns \cup {h}
    /\ UNCHANGED <<configured, dirHosts, nextOtp, batch_args, session, hook, ext, workers, nops>>

(* ----------------------------- delete_host ---------------------------- *)

\* ipa.py:337: delete_host(h) called on a client
delete_host(w, h) ==
    /\ Begin(w, "delete_host", h)
    /\ Direct(w)
    /\ wotp' = [wotp EXCEPT ![w] = 0]
    /\ wpc' = [wpc EXCEPT ![w] = "delete_host"]
    /\ UNCHANGED <<configured, directory, nextOtp, batch_args, session, hook, ext>>

\* ipa.py:341-354: delete_host up to its first command
DeleteHostEnter(w) ==
    /\ wpc[w] = "delete_host"
    /\ IF ~configured
       THEN Ends(w, "returned")
       ELSE /\ wpc' = [wpc EXCEPT ![w] = "host_del"]
            /\ wend' = wend
    /\ UNCHANGED <<configured, directory, nextOtp, batch_args, session, hook, ext, nops,
                   wop, whost, wotp, wres, wdata, wsent, wlast, wstored, wlookup, wenroll>>

\* a delete_host that passes over NotFound alone
SwallowsNotFound(o, out) == out = "NotFound" /\ o \in {"delete_host", "delete"}

\* ipa.py:357, 370: delete_host passes over NotFound and ACIError;
\* ipa.py:330: delete_subhost lets every error of host_del out
Swallows(o, out) == out \in {"NotFound", "ACIError"} /\ o \in {"delete_host", "delete"}

\* ipa.py:355-360, 330: _call_ipa('host_del', h, updatedns=False) and its handler
HostDel(w, out) ==
    /\ wpc[w] = "host_del"
    /\ out \in Answers({DirHostDel(whost[w]), "ACIError"})
    /\ Sends(w, "host_del", out)
    /\ dirHosts' = IF out = "ok" THEN dirHosts \ {whost[w]} ELSE dirHosts
    /\ dirKeytab' = IF out = "ok" THEN dirKeytab \ {whost[w]} ELSE dirKeytab
    /\ dirOtp' = IF out = "ok" THEN [dirOtp EXCEPT ![whost[w]] = 0] ELSE dirOtp
    /\ IF out = "ok" \/ Swallows(wop[w], out)
       THEN /\ wpc' = [wpc EXCEPT ![w] = "dnsrecord_del"]
            /\ wend' = wend
       ELSE Ends(w, "raised")
    /\ UNCHANGED <<configured, dirDns, nextOtp, batch_args, session, hook, ext, nops,
                   wop, whost, wotp, wres, wdata, wstored, wlookup, wenroll>>

\* ipa.py:362-372, 331-335: _call_ipa('dnsrecord_del', domain, hn, del_all=True) and its
\* handler
DnsrecordDel(w, out) ==
    /\ wpc[w] = "dnsrecord_del"
    /\ out \in Answers({DirDnsDel(whost[w]), "ACIError"})
    /\ Sends(w, "dnsrecord_del", out)
    /\ dirDns' = IF out = "ok" THEN dirDns \ {whost[w]} ELSE dirDns
    /\ IF out \in {"ok", "NotFound", "ACIError"}
       THEN Ends(w, "returned")
       ELSE Ends(w, "raised")
    /\ UNCHANGED <<configured, dirHosts, dirOtp, dirKeytab, nextOtp, batch_args,
                   session, hook, ext, nops, wop, whost, wotp, wres, wdata,
                   wstored, wlookup, wenroll>>

(* ------------------- JoinController and notifications ----------------- *)

\* join.py:81: JoinController.__init__(self) takes no client
JoinControllerTakesClient == FALSE

\* join.py:106-197: create for a body that has instance-id, hostname, image-id
\* and project-id and no ipa_hostclass, up to the call of add_host; e
\* is ipa_enroll of the metadata and of the image, inst says that nova knows
\* the instance
create(w, h, e, inst) ==
    /\ Begin(w, "create", h)
    /\ wlookup' = [wlookup EXCEPT ![w] = Enrolls(e[1], e[2])]
    /\ wenroll' = [wenroll EXCEPT ![w] = Enrolls(e[1], e[2])]
    /\ IF ~Enrolls(e[1], e[2])
       THEN /\ Ends(w, "200")
            /\ wdata' = [wdata EXCEPT ![w] = {}]
            /\ wotp' = [wotp EXCEPT ![w] = 0]
            /\ nextOtp' = nextOtp
       ELSE IF ~inst
       THEN /\ Ends(w, "400")
            /\ wdata' = [wdata EXCEPT ![w] = {}]
            /\ wotp' = [wotp EXCEPT ![w] = 0]
            /\ nextOtp' = nextOtp
       ELSE /\ nextOtp <= MaxOtp
            /\ wpc' = [wpc EXCEPT ![w] = "add_host"]
            /\ wend' = [wend EXCEPT ![w] = "none"]
            /\ wdata' = [wdata EXCEPT ![w] = {"ipaotp", "hostname"}]
            /\ wotp' = [wotp EXCEPT ![w] = nextOtp]
            /\ nextOtp' = nextOtp + 1
    /\ UNCHANGED <<configured, directory, batch_args, session, hook, ext>>

\* join.py:209: start_batch_operation() on the client of the controller
CreateStartBatch(w) ==
    /\ wpc[w] = "start_batch"
    /\ batch_args' = <<>>
    /\ wpc' = [wpc EXCEPT ![w] = "flush"]
    /\ UNCHANGED <<configured, directory, nextOtp, session, hook, ext, nops, wop, whost, wotp,
                   wres, wdata, wend, wsent, wlast, wstored, wlookup, wenroll>>

\* notifications.py:140-143: the handler makes a client and passes it to
\* JoinController, whose constructor takes none: a TypeError, before the
\* metadata e of the event is looked at
compute_instance_update(w, h, e) ==
    /\ Begin(w, "update", h)
    /\ ~JoinControllerTakesClient
    /\ wdata' = [wdata EXCEPT ![w] = {}]
    /\ wlookup' = [wlookup EXCEPT ![w] = FALSE]
    /\ wenroll' = [wenroll EXCEPT ![w] = Enrolls(e[1], e[2])]
    /\ wotp' = [wotp EXCEPT ![w] = 0]
    /\ wpc' = wpc
    /\ wend' = [wend EXCEPT ![w] = "TypeError"]
    /\ UNCHANGED <<configured, directory, nextOtp, batch_args, session, hook, ext>>

\* notifications.py:179-198: the handler up to delete_host, for metadata
\* without managed or compact services
compute_instance_delete(w, h, e) ==
    /\ Begin(w, "delete", h)
    /\ wdata' = [wdata EXCEPT ![w] = {}]
    /\ wlookup' = [wlookup EXCEPT ![w] = FALSE]
    /\ wenroll' = [wenroll EXCEPT ![w] = Enrolls(e[1], e[2])]
    /\ wotp' = [wotp EXCEPT ![w] = 0]
    /\ IF ~Enrolls(e[1], e[2])
       THEN Ends(w, "returned")
       ELSE /\ wpc' = [wpc EXCEPT ![w] = "delete_host"]
            /\ wend' = [wend EXCEPT ![w] = "none"]
    /\ UNCHANGED <<configured, directory, nextOtp, batch_args, session, hook, ext>>

\* join.py:219-221 and ipa.py:182-191: flush_batch_operation() up to the batch
\* command; with an empty queue it returns, and create returns its response
Flush(w) ==
    /\ wpc[w] = "flush"
    /\ IF FlushCalls(batch_args)
       THEN /\ wpc' = [wpc EXCEPT ![w] = "batch"]
            /\ wend' = wend
       ELSE Ends(w, IF wop[w] = "create" THEN "200" ELSE "returned")
    /\ UNCHANGED <<configured, directory, nextOtp, batch_args, session, hook, ext, nops,
                   wop, whost, wotp, wres, wdata, wsent, wlast, wstored, wlookup, wenroll>>

\* what one command of a batch does to the host entries and the DNS records of
\* directory d; service entries are not part of d
DirAfter(c, d) ==
    CASE c[1] = "host_add" -> [d EXCEPT !.hosts = @ \cup {c[2]}]
      [] c[1] = "host_del" -> [d EXCEPT !.hosts = @ \ {c[2]}, !.keytab = @ \ {c[2]},
                                        !.otp = [@ EXCEPT ![c[2]] = 0]]
      [] c[1] = "dnsrecord_del" -> [d EXCEPT !.dns = @ \ {c[2]}]
      [] OTHER -> d

\* the directory after the commands of batch q, run in their order
RECURSIVE DirAfterBatch(_, _)
DirAfterBatch(q, d) ==
    IF q = <<>> THEN d ELSE DirAfterBatch(Tail(q), DirAfter(Head(q), d))

\* ipa.py:191: _call_ipa('batch', *self.batch_args); the directory runs every
\* command of the batch and reports their errors in the result
Batch(w, out) ==
    /\ wpc[w] = "batch"
    /\ out \in Answers({"ok"})
    /\ Sends(w, "batch", out)
    /\ LET d == DirAfterBatch(batch_args, [hosts |-> dirHosts, otp |-> dirOtp,
                                           keytab |-> dirKeytab, dns |-> dirDns])
       IN  IF out = "ok"
           THEN /\ dirHosts' = d.hosts
                /\ dirOtp' = d.otp
                /\ dirKeytab' = d.keytab
                /\ dirDns' = d.dns
           ELSE UNCHANGED directory
    /\ IF out = "ok"
       THEN Ends(w, IF wop[w] = "create" THEN "200" ELSE "returned")
       ELSE Ends(w, "raised")
    /\ UNCHANGED <<configured, nextOtp, batch_args, session, hook, ext, nops,
                   wop, whost, wotp, wres, wdata, wstored, wlookup, wenroll>>

(* ------------- the other operations of IPAClient, called directly ----- *)

\* service principals of managed services
Principals == {"HTTP/h1"}

\* an operation that goes on to a directory command instead of ending
ImmediateThenCall(w, o, h) ==
    /\ Begin(w, o, h)
    /\ Direct(w)
    /\ wotp' = [wotp EXCEPT ![w] = 0]
    /\ wpc' = [wpc EXCEPT ![w] = "service"]
    /\ UNCHANGED <<configured, directory, nextOtp, session, hook, ext>>

\* an operation that ends in the step that begins it
Immediate(w, o, h) ==
    /\ Begin(w, o, h)
    /\ wdata' = [wdata EXCEPT ![w] = {}]
    /\ wlookup' = [wlookup EXCEPT ![w] = FALSE]
    /\ wenroll' = [wenroll EXCEPT ![w] = TRUE]
    /\ wotp' = [wotp EXCEPT ![w] = 0]
    /\ Ends(w, "returned")
    /\ UNCHANGED <<configured, directory, nextOtp, session, hook, ext>>

\* an operation that begins with the command at position p
Calls(w, o, h, p) ==
    /\ Begin(w, o, h)
    /\ Direct(w)
    /\ wotp' = [wotp EXCEPT ![w] = 0]
    /\ wpc' = [wpc EXCEPT ![w] = p]
    /\ UNCHANGED <<configured, directory, nextOtp, batch_args, session, hook, ext>>

\* ipa.py:166-173 called on the client
StartBatch(w) ==
    /\ Immediate(w, "start_batch_operation", "none")
    /\ batch_args' = <<>>

\* ipa.py:182 called on the client
FlushBatch(w) ==
    /\ w \in Workers
    /\ Calls(w, "flush_batch_operation", "none", "flush")

\* ipa.py:294-304
add_subhost(w, h) ==
    /\ Len(batch_args) < MaxBatch
    /\ Immediate(w, "add_subhost", h)
    /\ batch_args' = AppendBatch(batch_args, <<"host_add", h>>)

\* ipa.py:374-378
add_service(w, p) ==
    /\ Len(batch_args) < MaxBatch
    /\ Immediate(w, "add_service", "none")
    /\ batch_args' = AppendBatch(batch_args, <<"service_add", p>>)

\* ipa.py:380-394
service_add_host(w, p, h) ==
    /\ Len(batch_args) < MaxBatch
    /\ Immediate(w, "service_add_host", h)
    /\ batch_args' = AppendBatch(batch_args, <<"service_add_host", p, h>>)

\* ipa.py:306-335
delete_subhost(w, h, batch) ==
    IF batch
    THEN /\ Len(batch_args) + 1 < MaxBatch
         /\ Immediate(w, "delete_subhost_batch", h)
         /\ batch_args' = AppendBatch(AppendBatch(batch_args, <<"host_del", h>>),
                                      <<"dnsrecord_del", h>>)
    ELSE Calls(w, "delete_subhost", h, "host_del")

\* ipa.py:429-436
delete_service(w, p, batch) ==
    IF batch
    THEN /\ Len(batch_args) < MaxBatch
         /\ Immediate(w, "delete_service_batch", "none")
         /\ batch_args' = AppendBatch(batch_args, <<"service_del", p>>)
    ELSE Calls(w, "delete_service", "none", "service")

\* ipa.py:396-405
service_has_hosts(w, p) ==
    /\ p \in Principals
    /\ Calls(w, "service_has_hosts", "none", "service")

\* ipa.py:421-427
host_has_services(w, h) ==
    /\ h \in Hostnames
    /\ Calls(w, "host_has_services", h, "service")

\* ipa.py:403-419, 426-427, 436: _call_ipa of service_show, service_find or
\* service_del; service entries are not tracked, the directory answers as it
\* likes; service_has_hosts turns NotFound into KeyError, nothing is caught
ServiceCall(w, out) ==
    /\ wpc[w] = "service"
    /\ out \in Answers({"ok", "NotFound"})
    /\ Sends(w, CASE wop[w] = "service_has_hosts" -> "service_show"
                  [] wop[w] = "host_has_services" -> "service_find"
                  [] OTHER -> "service_del", out)
    /\ Ends(w, IF out = "ok" THEN "returned" ELSE "raised")
    /\ UNCHANGED <<configured, directory, nextOtp, batch_args, session, hook, ext, nops,
                   wop, whost, wotp, wres, wdata, wstored, wlookup, wenroll>>

\* ipa.py:438-448: add_ip up to its command
add_ip(w, h) ==
    IF ~configured
    THEN Immediate(w, "add_ip", h) /\ batch_args' = batch_args
    ELSE Calls(w, "add_ip", h, "dnsrecord_add")

\* ipa.py:450-453: _call_ipa('dnsrecord_add', domain, hostname, a_part_ip_address)
\* and its handler; the addresses of a name are not tracked, the directory
\* says whether the record is new
DnsrecordAdd(w, out) ==
    /\ wpc[w] = "dnsrecord_add"
    /\ out \in Answers({"ok", "DuplicateEntry", "ValidationError"})
    /\ Sends(w, "dnsrecord_add", out)
    /\ dirDns' = IF out = "ok" THEN dirDns \cup {whost[w]} ELSE dirDns
    /\ Ends(w, IF out = "Error" THEN "raised" ELSE "returned")
    /\ UNCHANGED <<configured, dirHosts, dirOtp, dirKeytab, nextOtp, batch_args,
                   session, hook, ext, nops, wop, whost, wotp, wres, wdata,
                   wstored, wlookup, wenroll>>

\* ipa.py:455-463: remove_ip checks the configuration and does nothing
remove_ip(w, h) ==
    /\ Immediate(w, "remove_ip", h)
    /\ batch_args' = batch_args

(* --------------------------- specifications --------------------------- *)

\* two workers serve create requests, notifications and calls of add_host and
\* delete_host, for metadata without managed services; the instances enroll
NextOps ==
    \/ \E w \in Workers, h \in Hostnames : add_host(w, h)
    \/ \E w \in Workers : AddHostEnter(w)
    \/ \E w \in Workers, out \in {"ok", "NotFound", "ValidationError", "Error"} :
          HostMod(w, out)
    \/ \E w \in Workers, out \in {"ok", "DuplicateEntry", "ValidationError", "Error"} :
          HostAdd(w, out)
    \/ \E h \in Hostnames : Enroll(h)
    \/ \E w \in Workers, h \in Hostnames : delete_host(w, h)
    \/ \E w \in Workers : DeleteHostEnter(w)
    \/ \E w \in Workers, out \in {"ok", "NotFound", "ACIError", "Error"} : HostDel(w, out)
    \/ \E w \in Workers, out \in {"ok", "NotFound", "ACIError", "Error"} :
          DnsrecordDel(w, out)
    \/ \E w \in Workers, h \in Hostnames, e \in EnrollCases, inst \in BOOLEAN :
          create(w, h, e, inst)
    \/ \E w \in Workers : CreateStartBatch(w)
    \/ \E w \in Workers : Flush(w)
    \/ \E w \in Workers, h \in Hostnames, e \in EnrollCases :
          compute_instance_update(w, h, e)
    \/ \E w \in Workers, h \in Hostnames, e \in EnrollCases :
          compute_instance_delete(w, h, e)

InitOps ==
    /\ SessionInit
    /\ ntries = 0
    /\ backoff0 = 0
    /\ OpsInit
    /\ HookInit
    /\ ExtInit

SpecOps == InitOps /\ [][NextOps]_vars

\* the thread that calls the operations of one client one after the other
Caller == "w1"

NextDirect ==
    \/ \E h \in Hostnames : add_host(Caller, h)
    \/ AddHostEnter(Caller)
    \/ \E out \in {"ok", "NotFound", "ValidationError", "Error"} : HostMod(Caller, out)
    \/ \E out \in {"ok", "DuplicateEntry", "ValidationError", "Error"} : HostAdd(Caller, out)
    \/ \E h \in Hostnames : Enroll(h)
    \/ \E h \in Hostnames : delete_host(Caller, h)
    \/ DeleteHostEnter(Caller)
    \/ \E out \in {"ok", "NotFound", "ACIError", "Error"} : HostDel(Caller, out)
    \/ \E out \in {"ok", "NotFound", "ACIError", "Error"} : DnsrecordDel(Caller, out)
    \/ StartBatch(Caller)
    \/ FlushBatch(Caller)
    \/ Flush(Caller)
    \/ \E out \in {"ok", "Error"} : Batch(Caller, out)
    \/ \E h \in Hostnames : add_subhost(Caller, h)
    \/ \E p \in Principals : add_service(Caller, p)
    \/ \E p \in Principals, h \in Hostnames : service_add_host(Caller, p, h)
    \/ \E h \in Hostnames, b \in BOOLEAN : delete_subhost(Caller, h, b)
    \/ \E p \in Principals, b \in BOOLEAN : delete_service(Caller, p, b)
    \/ \E p \in Principals : service_has_hosts(Caller, p)
    \/ \E h \in Hostnames : host_has_services(Caller, h)
    \/ \E out \in {"ok", "NotFound", "Error"} : ServiceCall(Caller, out)
    \/ \E h \in Hostnames : add_ip(Caller, h)
    \/ \E out \in {"ok", "DuplicateEntry", "ValidationError", "Error"} :
          DnsrecordAdd(Caller, out)
    \/ \E h \in Hostnames : remove_ip(Caller, h)

SpecDirect == InitOps /\ [][NextDirect]_vars

(* ================== hooks: translation of IPA errors =================== *)

\* error codes of IPA that hooks.py does not name (ACIError, InternalError)
OtherCodes == {2100, 903}

\* the methods of the requests, split at "_"
Methods ==
    {<<"host", "_", "add">>, <<"host", "_", "del">>, <<"host", "_", "mod">>,
     <<"dnsrecord", "_", "add">>, <<"dnsrecord", "_", "del">>,
     <<"service", "_", "add">>, <<"service", "_", "add", "_", "host">>, <<"batch">>}

\* the answers: resp['error'] is null, or holds a code
Responses ==
    {<<>>} \cup {<<c>> : c \in {IPA_INVALID_DATA, IPA_NOT_FOUND, IPA_DUPLICATE,
                                IPA_NO_DNS_RECORD, IPA_NO_CHANGES} \cup OtherCodes}

\* hooks.py:107-123: None is written "None"
ipaerror2exception ==
    (IPA_INVALID_DATA :> (<<"host">> :> "IPAInvalidData" @@
                          <<"dnsrecord">> :> "IPAInvalidData")) @@
    (IPA_NO_CHANGES :> (<<"host">> :> "None" @@ <<"dnsrecord">> :> "None")) @@
    (IPA_NO_DNS_RECORD :> (<<"host">> :> "None")) @@
    (IPA_DUPLICATE :> (<<"host">> :> "IPADuplicateEntry" @@
                       <<"dnsrecord">> :> "IPADuplicateEntry"))

\* dict.get(k, default)
Get(f, k, default) == IF k \in DOMAIN f THEN f[k] ELSE default

\* hooks.py:206: method.split('_')[0], the parts of m before the first "_"
RECURSIVE MethType(_)
MethType(m) ==
    IF m = <<>> \/ Head(m) = "_" THEN <<>> ELSE <<Head(m)>> \o MethType(Tail(m))

\* a translation that ignores what the table does not map
ErrorToExceptionIgnoring(resp, method) ==
    IF resp = <<>>
    THEN "None"
    ELSE Get(Get(ipaerror2exception, resp[1], <<>>), MethType(method), "None")

\* hooks.py:200-215: the error class for an answer, "None" for none
ipa_error_to_exception(resp, method) ==
    IF resp = <<>>
    THEN "None"
    ELSE Get(Get(ipaerror2exception, resp[1], <<>>), MethType(method), "IPAUnknownError")

\* hooks.py:246-257: _call_and_handle_error for request hreq once it has been
\* answered with status 200 and the JSON body hresp
call_and_handle_error ==
    /\ hout = "none"
    /\ hexc' = ipa_error_to_exception(hresp, hreq)
    /\ hout' = IF ipa_error_to_exception(hresp, hreq) # "None" THEN "raised" ELSE "returned"
    /\ UNCHANGED <<client, session, ops, ext, hreq, hresp>>

\* the next request of the hook and its answer
NextRequest(method, resp) ==
    /\ hout # "none"
    /\ hreq' = method
    /\ hresp' = resp
    /\ hexc' = "none"
    /\ hout' = "none"
    /\ UNCHANGED <<client, session, ops, ext>>

NextHooks ==
    \/ call_and_handle_error
    \/ \E method \in Methods, resp \in Responses : NextRequest(method, resp)

\* a request and its answer
InitHooks ==
    /\ SessionInit
    /\ ntries = 0
    /\ backoff0 = 0
    /\ OpsInit
    /\ configured
    /\ hreq \in Methods
    /\ hresp \in Responses
    /\ hexc = "none"
    /\ hout = "none"
    /\ ExtInit

SpecHooks == InitHooks /\ [][NextHooks]_vars

(* ============== hooks: the retries of one request ====================== *)

\* what the retry loop of the hook leaves alone
RetryFrame == UNCHANGED <<client, session, ops, hook, api, notif, krb, util, glance>>

\* a hook that gives up with one retry left
GivesUpEarly(n) == n <= 1

\* hooks.py:230: "if self.ntries == 0"
GivesUp(n) == n = 0

\* hooks.py:194-198, 132-135: a hook is made, with retries as the value of
\* connect_retries; the session has no token yet
HookNew(retries) ==
    /\ hpc = "none"
    /\ hpc' = "idle"
    /\ hretries' = retries
    /\ hntries' = retries
    /\ hstart' = retries
    /\ UNCHANGED <<htoken, need_reauth, hposts, hfails, hhow, hcalls>>
    /\ RetryFrame

\* hooks.py:217-219: _call_and_handle_error is entered
HookCall ==
    /\ hpc = "idle"
    /\ hcalls < MaxCalls
    /\ hcalls' = hcalls + 1
    /\ hpc' = "loop"
    /\ need_reauth' = FALSE
    /\ hposts' = 0
    /\ hfails' = 0
    /\ hstart' = hntries
    /\ hhow' = "none"
    /\ UNCHANGED <<hretries, hntries, htoken>>
    /\ RetryFrame

\* hooks.py:220-245: one turn of the loop.  out is what happens: "authfail",
\* refresh_auth raises IPAAuthError, in the loop or in the first use of the
\* session's auth (hooks.py:144-146), and nothing is posted; "401", "200" and
\* "200error", the status of the answer to the post, the last with an error
\* in its body or a body that is no JSON (hooks.py:246-256); "Error", the
\* post raises something else
HookAttempt(out) ==
    /\ hpc = "loop"
    /\ out = "authfail" => (need_reauth \/ ~htoken)
    /\ hposts' = IF out = "authfail" THEN hposts ELSE hposts + 1
    /\ htoken' = IF out = "authfail" THEN htoken ELSE TRUE
    /\ IF out \in {"authfail", "401"}
       THEN /\ hfails' = hfails + 1
            /\ IF GivesUp(hntries)
               THEN /\ hntries' = hretries
                    /\ hpc' = "idle"
                    /\ hhow' = "IPACommunicationFailure"
                    /\ UNCHANGED need_reauth
               ELSE /\ need_reauth' = TRUE
                    /\ hntries' = hntries - 1
                    /\ UNCHANGED <<hpc, hhow>>
       ELSE /\ hpc' = "idle"
            /\ hntries' = IF out = "Error" THEN hntries ELSE hretries
            /\ hhow' = CASE out = "200" -> "returned"
                         [] out = "200error" -> "IPAError"
                         [] OTHER -> "Error"
            /\ UNCHANGED <<hfails, need_reauth>>
    /\ UNCHANGED <<hretries, hstart, hcalls>>
    /\ RetryFrame

NextRetry ==
    \/ \E retries \in 0..MaxRetries : HookNew(retries)
    \/ HookCall
    \/ \E out \in {"authfail", "401", "200", "200error", "Error"} : HookAttempt(out)

SpecRetry == InitOps /\ [][NextRetry]_vars

(* ===================== GlanceClient.call: retries ====================== *)

\* glance.py:98-104: num_attempts for the value retries of glance_num_retries
NumAttempts(retries) == (IF retries < 0 THEN 0 ELSE retries) + 1

\* glance.py:109-110: kwargs.pop('controller', 'images') for a call that asked
\* for controller ctl, given the keys that kwargs still has
PopController(kwargs, ctl) == IF "controller" \in kwargs THEN ctl ELSE "images"

\* glance.py:91-104: call(context, method, **kwargs) is entered; ctl is the
\* controller the caller means, passed as controller=ctl unless it is the
\* default (glance.py:130, 170-172), retries the value of glance_num_retries
GlanceCall(method, ctl, retries) ==
    /\ gpc = "idle"
    /\ (ctl = "schemas") => (method = "get")
    /\ gretries' = retries
    /\ gmethod' = method
    /\ gctl' = ctl
    /\ gkwargs' = IF ctl = "schemas" THEN {"controller", "schema_name"} ELSE {}
    /\ gattempt' = 1
    /\ gused' = <<>>
    /\ glast' = "none"
    /\ gpc' = "loop"
    /\ gend' = "none"
    /\ UNCHANGED <<client, session, ops, hook, api, notif, krb, util, retry>>

\* glance.py:106-131: one attempt.  out is how the method of the controller
\* ends: "ok", "retry" for one of retry_excs, "other" for another exception;
\* the images controller does not take the arguments of a schemas call, so a
\* call meant for schemas that reaches it ends in another exception
GlanceAttempt(out) ==
    /\ gpc = "loop"
    /\ (PopController(gkwargs, gctl) # gctl) => (out = "other")
    /\ gused' = Append(gused, PopController(gkwargs, gctl))
    /\ gkwargs' = gkwargs \ {"controller"}
    /\ glast' = out
    /\ CASE out = "ok" -> gpc' = "idle" /\ gend' = "returned" /\ UNCHANGED gattempt
         [] out = "other" -> gpc' = "idle" /\ gend' = "raised" /\ UNCHANGED gattempt
         [] OTHER ->
              IF gattempt = NumAttempts(gretries)
              THEN gpc' = "idle" /\ gend' = "GlanceConnectionFailed" /\ UNCHANGED gattempt
              ELSE gattempt' = gattempt + 1 /\ UNCHANGED <<gpc, gend>>
    /\ UNCHANGED <<gretries, gmethod, gctl>>
    /\ UNCHANGED <<client, session, ops, hook, api, notif, krb, util, retry>>

NextGlance ==
    \/ \E method \in {"get", "list"}, ctl \in {"images", "schemas"},
          retries \in -1..MaxGlanceRetries : GlanceCall(method, ctl, retries)
    \/ \E out \in {"ok", "retry", "other"} : GlanceAttempt(out)

SpecGlance == InitOps /\ [][NextGlance]_vars

(* ============ JoinController.create: one HTTP request each ============ *)

\* join.py:116-119: the keys create requires of the body
BodyKeys == {"instance-id", "hostname", "image-id", "project-id"}

\* the bodies of the requests: none (<<>>), or a dict with some of the keys
Bodies == {<<>>} \cup {<<BodyKeys \ K>> : K \in {{}, BodyKeys} \cup {{k} : k \in BodyKeys}}

\* body['metadata']: ipa_enroll is "true", ipa_hostclass is set, and the
\* values of the managed_service_ keys, each a principal (service, host); no
\* compact_services
MetaCases ==
    {NoMeta,
     [enroll |-> TRUE, hostclass |-> FALSE, services |-> <<>>],
     [enroll |-> TRUE, hostclass |-> TRUE, services |-> <<>>],
     [enroll |-> TRUE, hostclass |-> FALSE, services |-> << <<"HTTP", "vip">> >>]}

\* the instance a worker's request is about: get_fqdn of body['hostname']
HostOf(w) == IF w = "w1" THEN "h1" ELSE "h2"

\* a check of the body that does not ask for the image-id
BodyOkWithoutImage(body) ==
    body # <<>> /\ body[1] # {} /\ (BodyKeys \ {"image-id"}) \subseteq body[1]

\* join.py:112-136: the body passes the checks of create
BodyOk(body) == body # <<>> /\ body[1] # {} /\ BodyKeys \subseteq body[1]

\* join.py:223-243: the commands handle_services adds for the principals
\* services of base_host, given the hosts and services it has already seen
RECURSIVE handle_services(_, _, _, _)
handle_services(base_host, services, hosts_found, services_found) ==
    IF services = <<>>
    THEN <<>>
    ELSE LET principal == Head(services)
             principal_host == principal[2]
         IN  (IF principal_host \notin hosts_found
              THEN << <<"host_add", principal_host>> >> ELSE <<>>)
             \o (IF principal \notin services_found
                 THEN << <<"service_add", principal>> >> ELSE <<>>)
             \o << <<"service_add_host", principal, base_host>> >>
             \o handle_services(base_host, Tail(services),
                                hosts_found \cup {principal_host},
                                services_found \cup {principal})

\* how a request ends: it is idle again, with its status
ApiEnds(w, status) ==
    /\ apc' = [apc EXCEPT ![w] = "idle"]
    /\ aend' = [aend EXCEPT ![w] = status]

\* a request goes on to position p
ApiGoes(w, p) ==
    /\ apc' = [apc EXCEPT ![w] = p]
    /\ aend' = aend

\* a request calls service c
ApiCalls(w, c) == acalls' = [acalls EXCEPT ![w] = Append(@, c)]

\* join.py:106-143: create up to the image service; the context of the
\* request is read at line 143 and handed on, no policy is asked about it
ApiCreate(w, body, meta, auth) ==
    /\ apc[w] = "idle"
    /\ abody' = [abody EXCEPT ![w] = body]
    /\ ameta' = [ameta EXCEPT ![w] = meta]
    /\ aauth' = [aauth EXCEPT ![w] = auth]
    /\ acalls' = [acalls EXCEPT ![w] = <<>>]
    /\ aadded' = [aadded EXCEPT ![w] = <<>>]
    /\ aflushed' = [aflushed EXCEPT ![w] = <<>>]
    /\ IF BodyOk(body)
       THEN /\ apc' = [apc EXCEPT ![w] = "image"]
            /\ aend' = [aend EXCEPT ![w] = "none"]
       ELSE ApiEnds(w, "400")
    /\ batch_args' = batch_args
    /\ UNCHANGED <<session, ops, hook, notif, krb, util, retry, glance>>

\* join.py:144-164: image_service.show and the test of ipa_enroll; image says
\* what the image service answers: "enroll" for an image whose properties ask
\* for enrollment, "plain" for another image, "ImageNotFound"
ImageShow(w, image) ==
    /\ apc[w] = "image"
    /\ ApiCalls(w, "image")
    /\ IF image = "ImageNotFound"
       THEN ApiEnds(w, "400")
       ELSE IF ~ameta[w].enroll /\ image # "enroll"
       THEN ApiEnds(w, "200")
       ELSE ApiGoes(w, "instance")
    /\ UNCHANGED <<abody, ameta, aauth, aadded, aflushed, batch_args>>
    /\ UNCHANGED <<session, ops, hook, notif, krb, util, retry, glance>>

\* join.py:168-190: get_instance, then the project name for a hostclass
GetInstance(w, inst) ==
    /\ apc[w] = "instance"
    /\ ApiCalls(w, "compute")
    /\ IF ~inst
       THEN ApiEnds(w, "400")
       ELSE ApiGoes(w, IF ameta[w].hostclass THEN "project" ELSE "add_host")
    /\ UNCHANGED <<abody, ameta, aauth, aadded, aflushed, batch_args>>
    /\ UNCHANGED <<session, ops, hook, notif, krb, util, retry, glance>>

\* join.py:179-188: keystone_client.get_project_name and the allowed classes
\* of the project
HostClass(w, allowed) ==
    /\ apc[w] = "project"
    /\ ApiCalls(w, "keystone")
    /\ IF allowed THEN ApiGoes(w, "add_host") ELSE ApiEnds(w, "403")
    /\ UNCHANGED <<abody, ameta, aauth, aadded, aflushed, batch_args>>
    /\ UNCHANGED <<session, ops, hook, notif, krb, util, retry, glance>>

\* join.py:199-207: add_host on the client of the controller, as one step; it
\* contacts the directory when the client is configured (ipa.py:235-237), and
\* create goes on whether it returned or raised
ApiAddHost(w) ==
    /\ apc[w] = "add_host"
    /\ acalls' = [acalls EXCEPT ![w] = IF configured THEN Append(@, "directory") ELSE @]
    /\ ApiGoes(w, "start_batch")
    /\ UNCHANGED <<abody, ameta, aauth, aadded, aflushed, batch_args>>
    /\ UNCHANGED <<session, ops, hook, notif, krb, util, retry, glance>>

\* join.py:209: self.ipaclient.start_batch_operation(), on the one client of
\* the controller (join.py:83)
ApiStartBatch(w) ==
    /\ apc[w] = "start_batch"
    /\ batch_args' = <<>>
    /\ ApiGoes(w, "services")
    /\ UNCHANGED <<abody, ameta, aauth, acalls, aadded, aflushed>>
    /\ UNCHANGED <<session, ops, hook, notif, krb, util, retry, glance>>

\* join.py:211-214: the next add_subhost, add_service or service_add_host of
\* handle_services, each an _add_batch_operation on the client
ApiAddBatch(w) ==
    /\ apc[w] = "services"
    /\ LET todo == handle_services(HostOf(w), ameta[w].services, {}, {})
       IN  /\ Len(aadded[w]) < Len(todo)
           /\ batch_args' = AppendBatch(batch_args, todo[Len(aadded[w]) + 1])
           /\ aadded' = [aadded EXCEPT ![w] = Append(@, todo[Len(aadded[w]) + 1])]
    /\ UNCHANGED <<abody, ameta, aauth, apc, acalls, aflushed, aend>>
    /\ UNCHANGED <<session, ops, hook, notif, krb, util, retry, glance>>

\* join.py:219-221: flush_batch_operation() after the last command was added:
\* nothing is sent for an empty queue (ipa.py:185), else the queue goes out as
\* one batch command, and an error of that command leaves create
ApiFlush(w, out) ==
    /\ apc[w] = "services"
    /\ Len(aadded[w]) = Len(handle_services(HostOf(w), ameta[w].services, {}, {}))
    /\ out \in Answers({"ok"})
    /\ IF FlushCalls(batch_args)
       THEN /\ ApiCalls(w, "directory")
            /\ aflushed' = [aflushed EXCEPT ![w] = batch_args]
            /\ ApiEnds(w, IF out = "ok" THEN "200" ELSE "raised")
       ELSE /\ out = "Error"
            /\ acalls' = acalls
            /\ aflushed' = aflushed
            /\ ApiEnds(w, "200")
    /\ batch_args' = QueueAfterFlush(batch_args)
    /\ UNCHANGED <<abody, ameta, aauth, aadded>>
    /\ UNCHANGED <<session, ops, hook, notif, krb, util, retry, glance>>

\* the requests of one worker, one after the other
NextApi ==
    \/ \E body \in Bodies, meta \in MetaCases, auth \in BOOLEAN :
          ApiCreate(Caller, body, meta, auth)
    \/ \E image \in {"enroll", "plain", "ImageNotFound"} : ImageShow(Caller, image)
    \/ \E inst \in BOOLEAN : GetInstance(Caller, inst)
    \/ \E allowed \in BOOLEAN : HostClass(Caller, allowed)
    \/ ApiAddHost(Caller)
    \/ ApiStartBatch(Caller)
    \/ ApiAddBatch(Caller)
    \/ \E out \in {"ok", "Error"} : ApiFlush(Caller, out)

SpecApi == InitOps /\ [][NextApi]_vars

\* the requests of two workers to one controller, each for an instance that
\* exists and asks for enrollment, with or without a managed service
NextApiPair ==
    \/ \E w \in Workers, meta \in {m \in MetaCases : m.enroll /\ ~m.hostclass} :
          ApiCreate(w, <<BodyKeys>>, meta, TRUE)
    \/ \E w \in Workers : ImageShow(w, "plain")
    \/ \E w \in Workers : GetInstance(w, TRUE)
    \/ \E w \in Workers : ApiAddHost(w)
    \/ \E w \in Workers : ApiStartBatch(w)
    \/ \E w \in Workers : ApiAddBatch(w)
    \/ \E w \in Workers, out \in {"ok", "Error"} : ApiFlush(w, out)

SpecApiPair == InitOps /\ [][NextApiPair]_vars

(* ================== notifications: the event handlers ================== *)

\* notifications.py:352, 360, 371: the versions the versioned handlers are
\* registered with, as (major, minor)
Registered ==
    ("instance.create.end" :> <<1, 10>>) @@ ("instance.update" :> <<1, 8>>) @@
    ("instance.delete.end" :> <<1, 7>>)

\* notifications.py:134-221, 352-380: the handler of each event type, by the
\* unversioned handler that does its work
Handler ==
    ("compute.instance.create.end" :> "create") @@ ("instance.create.end" :> "create") @@
    ("compute.instance.update" :> "update") @@ ("instance.update" :> "update") @@
    ("compute.instance.delete.end" :> "delete") @@ ("instance.delete.end" :> "delete") @@
    ("network.floating_ip.associate" :> "associate") @@
    ("network.floating_ip.disassociate" :> "disassociate") @@
    ("floatingip.update.end" :> "floating_ip_update")

\* an event type that passes the filter of the endpoint (notifications.py:113-119)
\* and that no handler is registered for
UnknownTypes == {"compute.instance.update.progress"}

\* notifications.py:129-130: the default of event_handlers.get() is
\* "lambda payload: ...", a function of one argument; line 132 calls the
\* handler with (self, payload)
DefaultHandlerTakesSelf == FALSE

\* the payload versions explored for a handler registered with version v
PayloadVersions(v) == {v, <<v[1], v[2] + 1>>, <<v[1] + 1, v[2]>>}

\* the instance of the notifications, and the host of the principal of its
\* managed service
Instance == "h1"
Subhost == "vip"

\* exception.py:31-153 defines no class NotificationVersionMismatch
NotificationVersionMismatchDefined == FALSE

\* notifications.py:80-107: check_version; the raise statement of line 94
\* looks the class up in the module exception
check_version(version, expected) ==
    IF version[1] # expected[1]
    THEN IF NotificationVersionMismatchDefined
         THEN "NotificationVersionMismatch" ELSE "AttributeError"
    ELSE "ok"

\* an update handler that removes the service of the instance
HandledUpdateDeletes(kind, enroll, svc, port) ==
    [pc |-> IF kind = "update" THEN "service_del" ELSE "idle",
     end |-> IF kind = "update" THEN "none" ELSE "TypeError"]

\* the handler of kind up to its first directory command: the position it
\* reaches and, when it ends there, how.
\* notifications.py:135-138: create logs;
\* notifications.py:142-143: update makes a client and calls
\*   join.JoinController(ipa), whose __init__ takes no client (join.py:81);
\* notifications.py:181-199, ipa.py:341-343: delete returns unless enrollment
\*   was asked for, calls delete_host, which returns at once on a client that
\*   is not configured, and then delete_subhosts;
\* notifications.py:203-212, 224-241, ipa.py:442-444: associate calls add_ip
\*   when nova knows the server (port: the port has one server);
\* notifications.py:219, 244: disassociate calls remove_ip(floating_ip), which
\*   takes (hostname, floating_ip) (ipa.py:455)
Handled(kind, enroll, svc, port) ==
    CASE kind = "create" -> [pc |-> "idle", end |-> "returned"]
      [] kind = "update" ->
           [pc |-> "idle", end |-> IF JoinControllerTakesClient THEN "returned" ELSE "TypeError"]
      [] kind = "delete" ->
           IF ~enroll THEN [pc |-> "idle", end |-> "returned"]
           ELSE IF configured THEN [pc |-> "host_del", end |-> "none"]
           ELSE IF svc THEN [pc |-> "service_show", end |-> "none"]
           ELSE [pc |-> "idle", end |-> "returned"]
      [] kind = "associate" \/ (kind = "floating_ip_update" /\ port) ->
           IF enroll /\ configured THEN [pc |-> "dnsrecord_add", end |-> "none"]
           ELSE [pc |-> "idle", end |-> "returned"]
      [] OTHER -> [pc |-> "idle", end |-> "TypeError"]

\* what the listener leaves alone
NotifyFrame ==
    UNCHANGED <<client, session, configured, dirOtp, dirKeytab, nextOtp, workers, nops,
                hook, api, krb, util, retry, glance>>

\* notifications.py:122-132, 66-77: info() for a notification of event type
\* type: the version check of a versioned handler, then the handler, which is
\* the default for a type that has none.  enroll:
\* the metadata asks for enrollment (for a floating IP: nova knows the server);
\* svc: the metadata lists the managed service; port: the floating IP has a port
info(type, version, enroll, svc, port) ==
    /\ npc = "idle"
    /\ type \in DOMAIN Handler \cup UnknownTypes
    /\ IF type \in DOMAIN Registered
       THEN version \in PayloadVersions(Registered[type]) ELSE version = <<>>
    /\ nev' = [type |-> type, ver |-> version, enroll |-> enroll, svc |-> svc, port |-> port]
    /\ nsent' = <<>>
    /\ LET checked == IF type \in DOMAIN Registered
                      THEN check_version(version, Registered[type]) ELSE "ok"
           h == IF type \in DOMAIN Handler
                THEN Handled(Handler[type], enroll, svc, port)
                ELSE [pc |-> "idle",
                      end |-> IF DefaultHandlerTakesSelf THEN "returned" ELSE "TypeError"]
       IN  IF checked # "ok"
           THEN /\ nran' = FALSE
                /\ npc' = "idle"
                /\ nend' = checked
           ELSE /\ nran' = (type \in DOMAIN Handler \/ DefaultHandlerTakesSelf)
                /\ npc' = h.pc
                /\ nend' = h.end
    /\ UNCHANGED <<dirHosts, dirDns, dirService, dirManagedBy, dirA>>
    /\ NotifyFrame

\* the listener sends command c for host or principal t, goes to position p
\* and, when p is "idle", ends with e
NSends(c, t, p, e) ==
    /\ nsent' = Append(nsent, <<c, t>>)
    /\ npc' = p
    /\ nend' = IF p = "idle" THEN e ELSE nend
    /\ UNCHANGED <<nev, nran>>

\* ipa.py:355-360 in delete_host, ipa.py:330 in delete_subhost(batch=False):
\* _call_ipa('host_del'); the directory takes the host out of the managedby
\* lists, and removes the services of the host with it
NHostDel(out) ==
    /\ npc \in {"host_del", "sub_host_del"}
    /\ LET t == IF npc = "host_del" THEN Instance ELSE Subhost
       IN  /\ out \in Answers({DirHostDel(t), "ACIError"})
           /\ IF out = "ok"
              THEN /\ dirHosts' = dirHosts \ {t}
                   /\ dirManagedBy' = IF t = Subhost THEN {} ELSE dirManagedBy \ {t}
                   /\ dirService' = (dirService /\ t # Subhost)
              ELSE UNCHANGED <<dirHosts, dirManagedBy, dirService>>
           /\ IF out = "ok" \/ (npc = "host_del" /\ Swallows("delete", out))
              THEN NSends("host_del", t, IF npc = "host_del" THEN "dnsrecord_del"
                                         ELSE "sub_dnsrecord_del", "none")
              ELSE NSends("host_del", t, "idle", "raised")
    /\ UNCHANGED <<dirDns, dirA>>
    /\ NotifyFrame

\* ipa.py:368-372, 331-335: _call_ipa('dnsrecord_del'), NotFound and ACIError
\* passed over; notifications.py:199, 263-273: then delete_subhosts, for
\* metadata without compact services
NDnsrecordDel(out) ==
    /\ npc \in {"dnsrecord_del", "sub_dnsrecord_del"}
    /\ LET t == IF npc = "dnsrecord_del" THEN Instance ELSE Subhost
       IN  /\ out \in Answers({DirDnsDel(t), "ACIError"})
           /\ dirDns' = IF out = "ok" THEN dirDns \ {t} ELSE dirDns
           /\ IF out = "Error"
              THEN NSends("dnsrecord_del", t, "idle", "raised")
              ELSE IF npc = "dnsrecord_del" /\ nev.svc
              THEN NSends("dnsrecord_del", t, "service_show", "none")
              ELSE NSends("dnsrecord_del", t, "idle", "returned")
    /\ UNCHANGED <<dirHosts, dirService, dirManagedBy, dirA>>
    /\ NotifyFrame

\* notifications.py:314-320, ipa.py:396-419: service_has_hosts(principal):
\* service_show, NotFound turned into KeyError, then the test for a host other
\* than the principal's own; both "continue" leave the loop body
ServiceShow(out) ==
    /\ npc = "service_show"
    /\ out \in Answers({IF dirService THEN "ok" ELSE "NotFound"})
    /\ IF out = "Error"
       THEN NSends("service_show", Subhost, "idle", "raised")
       ELSE IF out = "NotFound" \/ dirManagedBy \ {Subhost} # {}
       THEN NSends("service_show", Subhost, "idle", "returned")
       ELSE NSends("service_show", Subhost, "service_del", "none")
    /\ UNCHANGED <<dirHosts, dirDns, dirService, dirManagedBy, dirA>>
    /\ NotifyFrame

\* notifications.py:321-322, ipa.py:435-436: delete_service(principal,
\* batch=False); no error is caught
ServiceDel(out) ==
    /\ npc = "service_del"
    /\ out \in Answers({IF dirService THEN "ok" ELSE "NotFound"})
    /\ dirService' = (dirService /\ out # "ok")
    /\ dirManagedBy' = IF out = "ok" THEN {} ELSE dirManagedBy
    /\ IF out = "ok"
       THEN NSends("service_del", Subhost, "service_find", "none")
       ELSE NSends("service_del", Subhost, "idle", "raised")
    /\ UNCHANGED <<dirHosts, dirDns, dirA>>
    /\ NotifyFrame

\* notifications.py:324-328, ipa.py:421-427: host_has_services(principal_host):
\* service_find(man_by_host), then delete_subhost unless a service was found
ServiceFind(out) ==
    /\ npc = "service_find"
    /\ out \in Answers({"ok"})
    /\ IF out = "Error"
       THEN NSends("service_find", Subhost, "idle", "raised")
       ELSE IF dirService /\ Subhost \in dirManagedBy
       THEN NSends("service_find", Subhost, "idle", "returned")
       ELSE NSends("service_find", Subhost, "sub_host_del", "none")
    /\ UNCHANGED <<dirHosts, dirDns, dirService, dirManagedBy, dirA>>
    /\ NotifyFrame

\* ipa.py:446-453: add_ip's _call_ipa('dnsrecord_add'), DuplicateEntry and
\* ValidationError passed over
NDnsrecordAdd(out) ==
    /\ npc = "dnsrecord_add"
    /\ out \in Answers({IF dirA THEN "DuplicateEntry" ELSE "ok", "ValidationError"})
    /\ dirA' = (dirA \/ out = "ok")
    /\ NSends("dnsrecord_add", Instance, "idle", IF out = "Error" THEN "raised" ELSE "returned")
    /\ UNCHANGED <<dirHosts, dirDns, dirService, dirManagedBy>>
    /\ NotifyFrame

\* join.py:199-219, 223-243: what a create request for instance h whose
\* metadata lists the managed service leaves in the directory: the host, the
\* host of the principal, the service, managed by its own host and by h
Register(h) ==
    /\ configured
    /\ dirHosts' = dirHosts \cup {h, Subhost}
    /\ dirDns' = dirDns \cup {h}
    /\ dirService' = TRUE
    /\ dirManagedBy' = dirManagedBy \cup {h, Subhost}
    /\ UNCHANGED <<nev, npc, nran, nsent, nend, dirA>>
    /\ NotifyFrame

\* one listener thread handles one notification after the other, while the
\* HTTP service registers instances
NextNotify ==
    \/ \E type \in DOMAIN Handler \cup UnknownTypes, enroll, svc, port \in BOOLEAN,
          version \in {<<>>} \cup UNION {PayloadVersions(Registered[t]) : t \in DOMAIN Registered} :
          info(type, version, enroll, svc, port)
    \/ \E out \in {"ok", "NotFound", "ACIError", "Error"} : NHostDel(out)
    \/ \E out \in {"ok", "NotFound", "ACIError", "Error"} : NDnsrecordDel(out)
    \/ \E out \in {"ok", "NotFound", "Error"} : ServiceShow(out)
    \/ \E out \in {"ok", "NotFound", "Error"} : ServiceDel(out)
    \/ \E out \in {"ok", "Error"} : ServiceFind(out)
    \/ \E out \in {"ok", "DuplicateEntry", "ValidationError", "Error"} : NDnsrecordAdd(out)
    \/ \E h \in Hostnames : Register(h)

SpecNotify == InitOps /\ [][NextNotify]_vars

(* ============== credential caches of the sessions of a process ========= *)

\* ipa.py:52-68: IPAClient() for session s: a fresh cache name, put into the
\* environment of the process; the first client of a configured process
\* fetches a ticket into its cache and finalizes the API
IPANovaJoinBaseInit(s) ==
    /\ nextCache <= MaxCaches
    /\ ccache' = [ccache EXCEPT ![s] = nextCache]
    /\ nextCache' = nextCache + 1
    /\ krb5ccname' = nextCache
    /\ tickets' = IF configured /\ ~finalized THEN tickets \cup {nextCache} ELSE tickets
    /\ finalized' = (finalized \/ configured)
    /\ cused' = [cused EXCEPT ![s] = 0]
    /\ UNCHANGED <<client, session, ops, hook, api, notif, util, retry, glance>>

\* ipa.py:139-158: a connection attempt of session s: connect() and ping
\* authenticate from the cache the environment names; without a valid ticket
\* there they end in a credential error and kinit_keytab fetches a ticket
\* into self.ccache
Connect(s) ==
    /\ ccache[s] # 0
    /\ configured
    /\ cused' = [cused EXCEPT ![s] = krb5ccname]
    /\ tickets' = IF krb5ccname \in tickets THEN tickets ELSE tickets \cup {ccache[s]}
    /\ UNCHANGED <<krb5ccname, ccache, finalized, nextCache>>
    /\ UNCHANGED <<client, session, ops, hook, api, notif, util, retry, glance>>

\* the ticket in cache c expires
TicketExpires(c) ==
    /\ c \in tickets
    /\ tickets' = tickets \ {c}
    /\ UNCHANGED <<krb5ccname, ccache, finalized, nextCache, cused>>
    /\ UNCHANGED <<client, session, ops, hook, api, notif, util, retry, glance>>

\* the sessions of one process are made and connect in any order
NextKrb ==
    \/ \E s \in Sessions : IPANovaJoinBaseInit(s)
    \/ \E s \in Sessions : Connect(s)
    \/ \E c \in 1..MaxCaches : TicketExpires(c)

SpecKrb == InitOps /\ [][NextKrb]_vars

(* ======================= functions on strings ========================== *)

\* the characters of the principals: a service letter, a host letter in both
\* cases, a realm letter in both cases, and the two separators
Chars == {"s", "h", "H", "r", "R", "/", "@"}

\* the strings of at most MaxLen characters
Strings == UNION {[1..n -> Chars] : n \in 0..MaxLen}

\* api.env.realm
Realm == <<"R">>

\* str.lower() and str.upper(), character by character
ToLower(str) == [i \in 1..Len(str) |-> CASE str[i] = "H" -> "h" [] str[i] = "R" -> "r"
                                         [] OTHER -> str[i]]
ToUpper(str) == [i \in 1..Len(str) |-> CASE str[i] = "h" -> "H" [] str[i] = "r" -> "R"
                                         [] OTHER -> str[i]]

\* str.split(sep): the parts of str between the occurrences of sep
RECURSIVE Split(_, _)
Split(str, sep) ==
    IF \A i \in 1..Len(str) : str[i] # sep
    THEN <<str>>
    ELSE LET i == CHOOSE j \in 1..Len(str) :
                      str[j] = sep /\ \A k \in 1..(j - 1) : str[k] # sep
         IN  <<SubSeq(str, 1, i - 1)>> \o Split(SubSeq(str, i + 1, Len(str)), sep)

\* ipa.py:15-47: the module imports and defines no name "_"
GettextDefined == FALSE

\* ipa.py:78, 82, 85: raise errors.MalformedServicePrincipal(reason=_(...)):
\* the argument is evaluated first
RaiseMalformed ==
    <<"raise", IF GettextDefined THEN "MalformedServicePrincipal" ELSE "NameError">>

\* ipa.py:70-98: split_principal
split_principal(p) ==
    LET sp == Split(p, "/")
    IN  IF Len(sp) # 2 THEN RaiseMalformed
        ELSE IF Len(sp[1]) = 0 THEN RaiseMalformed
        ELSE LET sr == Split(sp[2], "@")
             IN  IF Len(sr) > 2 THEN RaiseMalformed
                 ELSE IF Len(sr) = 2
                 THEN IF ToUpper(sr[2]) # Realm
                      THEN <<"raise", "RealmMismatch">>
                      ELSE <<"return", sp[1], ToLower(sr[1]), ToUpper(sr[2])>>
                 ELSE <<"return", sp[1], ToLower(sr[1]), Realm>>

\* split_principal is applied to the principal
SplitPrincipal ==
    /\ ufun = "split_principal"
    /\ ures = <<>>
    /\ ures' = split_principal(uprincipal)
    /\ UNCHANGED <<ufun, uprincipal, umetadata>>
    /\ UNCHANGED <<client, session, ops, hook, api, notif, krb, retry, glance>>

(* ----------------------- get_compact_services -------------------------- *)

\* Strings with "_" are written as their parts, "_" being a part; a JSON text
\* is written as its tokens, each token a string of that kind.

\* the names of the services, and the network lists a service can have
ServiceNames == {<<"http">>, <<"rabbit", "_", "mq">>}
Networks == {<<>>, << <<"internalapi">> >>, << <<"internalapi">>, <<"ctlplane">> >>}

\* the service maps: some of the services, each with its networks
ServiceMaps == UNION {[N -> Networks] : N \in SUBSET ServiceNames}

\* sep.join(parts)
RECURSIVE Join(_, _)
Join(parts, sep) ==
    IF parts = <<>> THEN <<>>
    ELSE IF Len(parts) = 1 THEN parts[1]
    ELSE parts[1] \o <<sep>> \o Join(Tail(parts), sep)

\* test_util.py:34-36: json.dumps of a list of networks
DumpsList(v) == << <<"[">> >> \o Join([i \in 1..Len(v) |-> <<v[i]>>], <<",">>) \o << <<"]">> >>

\* test_util.py:33: json.dumps of a service map, its services in a fixed order
DumpsMap(m) ==
    LET names == SelectSeq(<< <<"http">>, <<"rabbit", "_", "mq">> >>,
                           LAMBDA n : n \in DOMAIN m)
    IN  << <<"{">> >>
        \o Join([i \in 1..Len(names) |-> <<names[i], <<":">> >> \o DumpsList(m[names[i]])],
                <<",">>)
        \o << <<"}">> >>

\* json.loads of the members of an object: name, ":", a list, and the rest
\* after ","; a later member of the same name wins
RECURSIVE LoadsMembers(_)
LoadsMembers(t) ==
    IF t = <<>> THEN <<>>
    ELSE LET close == CHOOSE j \in 1..Len(t) :
                          t[j] = <<"]">> /\ \A k \in 1..(j - 1) : t[k] # <<"]">>
             items == SelectSeq(SubSeq(t, 4, close - 1), LAMBDA x : x # <<",">>)
         IN  LoadsMembers(SubSeq(t, close + 2, Len(t))) @@ (t[1] :> items)

\* json.loads of a text that is a list of strings or an object of such lists
json_loads(t) ==
    IF t[1] = <<"[">>
    THEN SelectSeq(SubSeq(t, 2, Len(t) - 1), LAMBDA x : x # <<",">>)
    ELSE LoadsMembers(SubSeq(t, 2, Len(t) - 1))

\* the key of a service in the key-per-service format, the key of the legacy
\* format, and keys that are neither: ipa_enroll and the key spelled as in the
\* docstring (util.py:75)
PerKey(n) == <<"compact", "_", "service", "_">> \o n
LegacyKey == <<"compact", "_", "services">>
OtherKeys == {<<"ipa", "_", "enroll">>, <<"compact", "_", "services", "_", "http">>}

\* the metadata that holds the services of c key by key, the services of l[1]
\* under the legacy key when l is not empty, and the other keys o
MetadataOf(c, l, o) ==
    [k \in {PerKey(n) : n \in DOMAIN c} |-> DumpsList(c[SubSeq(k, 5, Len(k))])]
    @@ (IF l = <<>> THEN <<>> ELSE (LegacyKey :> DumpsMap(l[1])))
    @@ [k \in o |-> << <<"true">> >>]

\* key.split('_', 2)[-1]: what follows the second "_", or the first if there
\* is no second, or the key
SplitLast(key) ==
    LET us == {i \in 1..Len(key) : key[i] = "_"}
        cut == IF us = {} THEN 0
               ELSE IF Cardinality(us) = 1 THEN CHOOSE i \in us : TRUE
               ELSE CHOOSE i \in us : Cardinality({j \in us : j < i}) = 1
    IN  SubSeq(key, cut + 1, Len(key))

\* key.startswith(prefix)
StartsWith(key, prefix) ==
    Len(key) >= Len(prefix) /\ SubSeq(key, 1, Len(prefix)) = prefix

\* a get_compact_services that looks at the legacy key first
get_compact_services_legacy_first(md) ==
    LET per == {k \in DOMAIN md : StartsWith(k, <<"compact", "_", "service", "_">>)}
    IN  IF LegacyKey \in DOMAIN md THEN <<"dict", json_loads(md[LegacyKey])>>
        ELSE IF per # {}
        THEN <<"dict", [n \in {SplitLast(k) : k \in per} |->
                           json_loads(md[CHOOSE k \in per : SplitLast(k) = n])]>>
        ELSE <<"None">>

\* util.py:62-88: get_compact_services; a dict is <<"dict", map>>, None <<"None">>
get_compact_services(md) ==
    LET per == {k \in DOMAIN md : StartsWith(k, <<"compact", "_", "service", "_">>)}
        compact_services == [n \in {SplitLast(k) : k \in per} |->
                                json_loads(md[CHOOSE k \in per : SplitLast(k) = n])]
    IN  IF per # {} THEN <<"dict", compact_services>>
        ELSE IF LegacyKey \in DOMAIN md THEN <<"dict", json_loads(md[LegacyKey])>>
        ELSE <<"None">>

\* get_compact_services is applied to the metadata
GetCompactServices ==
    /\ ufun = "get_compact_services"
    /\ ures = <<>>
    /\ ures' = get_compact_services(umetadata)
    /\ UNCHANGED <<ufun, uprincipal, umetadata>>
    /\ UNCHANGED <<client, session, ops, hook, api, notif, krb, retry, glance>>

NextUtil ==
    \/ SplitPrincipal
    \/ GetCompactServices

\* one of the functions and its argument
InitUtil ==
    /\ SessionInit
    /\ ntries = 0
    /\ backoff0 = 0
    /\ OpsInit
    /\ configured
    /\ HookInit
    /\ ApiInit
    /\ NotifInit
    /\ KrbInit
    /\ RetryInit
    /\ GlanceInit
    /\ ures = <<>>
    /\ \/ /\ ufun = "split_principal"
          /\ uprincipal \in Strings
          /\ umetadata = <<>>
       \/ /\ ufun = "get_compact_services"
          /\ uprincipal = <<>>
          /\ umetadata \in {MetadataOf(c, l, o) :
                              c \in ServiceMaps,
                              l \in {<<>>} \cup {<<m>> : m \in ServiceMaps},
                              o \in SUBSET OtherKeys}

SpecUtil == InitUtil /\ [][NextUtil]_vars

(* =============================== claims =============================== *)

Min(a, b) == IF a <= b THEN a ELSE b

RECURSIVE Pow2(_)
Pow2(k) == IF k = 0 THEN 1 ELSE 2 * Pow2(k - 1)

\* the operation is a _call_ipa that has ended by returning the command's result
Returned == called /\ pc = "idle" /\ result = "result"

\* C1: in a _call_ipa that started without a connection, while the only
\* failures are credential errors of connection attempts and there are fewer
\* of them than connect_retries, the reconnect loop keeps trying and sends
\* nothing; once an attempt succeeds the command is sent on the live channel,
\* and when it succeeds the call returns its result having sent it exactly once.
C1_Scenario ==
    /\ called
    /\ runs = 1
    /\ connNet = 0
    /\ cmdCred = 0
    /\ cmdNet = 0
    /\ connCred < ntries
    /\ result # "Error"

C1_Thm ==
    C1_Scenario =>
        \/ pc = "conn" /\ connOk = 0 /\ sent = <<>>
        \/ pc = "send" /\ connOk = 1 /\ sent = <<>> /\ connected /\ live
        \/ pc = "idle" /\ connOk = 1 /\ result = "result" /\ sent = <<cmd>>

C1_Witness ==
    /\ C1_Scenario
    /\ pc = "idle"
    /\ connCred >= 1
    /\ connOk = 1
    /\ result = "result"
    /\ Len(sent) = 1

\* C2 (the claim as stated): with backoff = 0, a _call_ipa all of whose
\* connection attempts fail with a credential error does not return normally
\* and makes no more than connect_retries + 1 connection attempts.
C2_Claim ==
    (called /\ backoff0 = 0 /\ connOk = 0 /\ connNet = 0 /\ connCred >= 1) =>
        /\ result # "result"
        /\ callAttempts <= ntries + 1

\* C3 (the claim as stated): every command is called on a channel that is
\* connected and whose last connect and ping succeeded.
C3_Claim == ~sentDead

\* C4 (the claim as stated): one run of the reconnect loop makes at most
\* connect_retries + 1 attempts, whatever the backoff.
C4_Claim == attempts <= ntries + 1

\* C4 (amended): with backoff = 0 one run of the reconnect loop makes at most
\* connect_retries + 1 attempts, and a run ends without a connection only
\* with backoff = 0 and after exactly connect_retries + 1 attempts.
C4_Thm ==
    /\ backoff0 = 0 => attempts <= ntries + 1
    /\ exhausted => (backoff0 = 0 /\ attempts = ntries + 1)

C4_Witness == exhausted /\ backoff0 = 0 /\ ntries >= 1 /\ attempts = ntries + 1

\* C5 (the claim as stated): one _call_ipa whose command is always called on
\* a live channel and fails only with credential errors calls it at most twice.
C5_Claim == (cmdNet = 0 /\ ~sentDead) => Len(sent) <= 2

\* C5 (amended): every credential error of the command is followed by one run
\* of the reconnect loop and another call of the command; the error is never
\* raised to the caller.
C5_Thm ==
    /\ result # "CredentialError"
    /\ cmdCred <= runs
    /\ runs <= cmdCred + 1
    /\ pc \in {"conn", "send"} => Len(sent) = cmdCred + cmdNet

C5_Witness == Returned /\ cmdCred = 2 /\ cmdNet = 0 /\ ~sentDead /\ Len(sent) = 3

\* C6 (the claim as stated): the k-th backoff sleep lasts
\* min(d * 2^k, 1024), and the stored backoff never exceeds 1024.
C6_Claim ==
    backoff0 > 0 =>
        /\ backoff <= BackoffCap
        /\ nsleeps > 0 => lastSleep = Min(backoff0 * Pow2(nsleeps - 1), BackoffCap)

\* C7: with backoff = 0, a _call_ipa in which every connection attempt and
\* every command call raises NetworkError makes at most connect_retries + 1
\* connection attempts, calls the command once and ends raising NetworkError.
C7_Scenario ==
    /\ called
    /\ backoff0 = 0
    /\ connOk = 0
    /\ connCred = 0
    /\ cmdCred = 0
    /\ result \notin {"Error", "result"}

C7_Thm ==
    C7_Scenario =>
        /\ callAttempts <= ntries + 1
        /\ Len(sent) <= 1
        /\ pc = "idle" => result = "NetworkError"
        /\ cmdNet >= 1 => pc = "idle"

C7_Witness ==
    /\ C7_Scenario
    /\ pc = "idle"
    /\ result = "NetworkError"
    /\ ntries >= 1
    /\ connNet = ntries + 1

\* C8: a flush that returns a result without any connection or command failure
\* has called exactly one command, "batch", with the commands added since the
\* last start_batch_operation, in the order they were added.
C8_Thm ==
    (Returned /\ op = "flush" /\ callAttempts = connOk /\ cmdCred = 0 /\ cmdNet = 0) =>
        /\ added # <<>>
        /\ sent = << <<"batch", added>> >>

C8_Witness ==
    /\ Returned
    /\ op = "flush"
    /\ Len(added) = 2
    /\ added[1] # added[2]
    /\ sent = << <<"batch", added>> >>

\* C9: flush_batch_operation on an empty queue returns None in that step: no
\* _call_ipa, no command, no connection attempt, and the channel, the backoff
\* and the queue stay as they are.
C9_Thm ==
    [][(pc = "idle" /\ op' = "flush" /\ batch_args = <<>>) =>
          /\ pc' = "idle"
          /\ result' = "None"
          /\ ~called'
          /\ sent' = <<>>
          /\ callAttempts' = 0
          /\ UNCHANGED <<connected, live, backoff, batch_args>>]_vars

C9_Witness ==
    /\ op = "flush"
    /\ pc = "idle"
    /\ batch_args = <<>>
    /\ result = "None"
    /\ ~called
    /\ connected

\* C10 (the claim as stated): after a flush that returned a result the queue is
\* empty.
C10_Claim == (Returned /\ op = "flush") => batch_args = <<>>

\* C10 (amended): after a flush that returned a result the queue still holds
\* the commands it submitted, and a flush that follows it directly submits
\* the same batch again; only start_batch_operation empties the queue.
C10_Thm ==
    [][/\ (Returned' /\ op' = "flush") =>
            (batch_args' = added' /\ batch_args' # <<>> /\ cmd' = <<"batch", batch_args'>>)
       /\ (Returned /\ op = "flush" /\ op' = "flush") =>
            (called' /\ cmd' = cmd /\ batch_args' = batch_args)
       /\ (Len(batch_args') < Len(batch_args)) => (op' = "start" /\ batch_args' = <<>>)]_vars

C10_Witness == Returned /\ op = "flush" /\ Len(batch_args) = 2 /\ Len(sent) = 1

\* C11: while a flush is running, and after it has raised (a connection error
\* or a command error left _call_ipa), the queue holds the commands it held
\* when the flush began, in the same order: the batch that was submitted.
C11_Thm ==
    (op = "flush" /\ called /\ (pc # "idle" \/ result \in Failures)) =>
        /\ batch_args # <<>>
        /\ batch_args = added
        /\ cmd = <<"batch", batch_args>>

C11_Witness ==
    /\ op = "flush"
    /\ pc = "idle"
    /\ result = "Error"
    /\ Len(sent) = 1
    /\ ~sentDead
    /\ Len(batch_args) = 2
    /\ batch_args[1] # batch_args[2]
    /\ cmd = <<"batch", batch_args>>

\* the operations that are built on _add_batch_operation
BatchAdders == {"add_subhost", "add_service", "service_add_host",
                "delete_subhost_batch", "delete_service_batch"}

\* C12: a call of add_subhost, add_service, service_add_host, or of
\* delete_subhost or delete_service with batch=True, is over in one step that
\* only appends to the queue (two commands for delete_subhost, one for the
\* others): it sends no command, and the directory, the channel and the
\* backoff are as before.
C12_Thm ==
    [][(nops' = nops + 1 /\ wop'[Caller] \in BatchAdders) =>
          /\ Len(batch_args') =
                Len(batch_args) + (IF wop'[Caller] = "delete_subhost_batch" THEN 2 ELSE 1)
          /\ SubSeq(batch_args', 1, Len(batch_args)) = batch_args
          /\ wpc'[Caller] = "idle"
          /\ wend'[Caller] = "returned"
          /\ wsent'[Caller] = <<>>
          /\ UNCHANGED <<directory, connected, live, backoff, nsleeps>>]_vars

C12_Witness ==
    /\ wop[Caller] = "delete_subhost_batch"
    /\ wpc[Caller] = "idle"
    /\ batch_args = << <<"host_del", "h1">>, <<"dnsrecord_del", "h1">> >>
    /\ "h1" \in dirHosts
    /\ wsent[Caller] = <<>>

\* the object type of the request of the hook: the part of the method name
\* before its first "_"
ObjType == <<hreq[1]>>

\* the entry of the error table for the answer and the request of the hook:
\* "unmapped" when the table has no entry for the code, or its entry has none
\* for the object type
Mapped ==
    IF hresp[1] \notin DOMAIN ipaerror2exception THEN "unmapped"
    ELSE IF ObjType \notin DOMAIN ipaerror2exception[hresp[1]] THEN "unmapped"
    ELSE ipaerror2exception[hresp[1]][ObjType]

C14_Claim ==
    (hout # "none") =>
        /\ (hresp = <<IPA_DUPLICATE>> /\ hreq = <<"host", "_", "add">>) =>
               (hout = "raised" /\ hexc = "IPADuplicateEntry")
        /\ (hresp = <<IPA_NOT_FOUND>> /\ hreq = <<"host", "_", "del">>) =>
               (hout = "returned")

\* C15: with IPA configured, whenever add_host returns and the directory
\* answered its last command (no transport error, no rejection of the entry):
\* it returns True and the host exists; when host_add created the host, the
\* host was absent before and now holds the OTP of the call; a call that finds
\* the host present with its OTP not consumed returns True after host_mod
\* alone and the host holds the new OTP; and add_host raises only for an
\* error that is not DuplicateEntry.
C15_Thm ==
    [][\A w \in Workers :
         (configured /\ wop[w] = "add_host" /\ wpc[w] \in {"host_mod", "host_add"}
            /\ wpc'[w] = "idle") =>
              /\ (wlast'[w] \in {"ok", "DuplicateEntry"}) =>
                     (wres'[w] = "True" /\ whost[w] \in dirHosts')
              /\ (wpc[w] = "host_add" /\ wlast'[w] = "ok") =>
                     (whost[w] \notin dirHosts /\ dirOtp'[whost[w]] = wotp[w])
              /\ (wpc[w] = "host_mod" /\ whost[w] \in dirHosts \ dirKeytab
                    /\ wlast'[w] # "Error") =>
                     (wres'[w] = "True" /\ wlast'[w] = "ok" /\ dirOtp'[whost[w]] = wotp[w])
              /\ (wres'[w] = "raised") => (wlast'[w] = "Error")]_vars

\* the second add_host for a host has returned True for a new OTP
C15_Witness ==
    \E w \in Workers :
        /\ configured
        /\ wop[w] = "add_host"
        /\ wpc[w] = "idle"
        /\ wres[w] = "True"
        /\ wsent[w] = <<"host_mod">>
        /\ wotp[w] = 2
        /\ dirOtp[whost[w]] = 2
        /\ whost[w] \notin dirKeytab

\* C16: a create that has answered with 'ipaotp' in its response had that OTP
\* stored by the directory: its host_mod or its host_add succeeded.
C16_Claim ==
    \A w \in Workers :
        (wop[w] = "create" /\ wpc[w] = "idle" /\ wend[w] = "200" /\ "ipaotp" \in wdata[w])
            => wstored[w]

\* C17: on a machine that is not a configured IPA client no operation of the
\* client calls _call_ipa, and none ends by raising.
C17_Claim ==
    (~configured) => (wsent[Caller] = <<>> /\ wend[Caller] # "raised")

C19_Thm ==
    [][\A w \in Workers :
         (configured /\ wop[w] = "delete_host") =>
           /\ (wpc[w] = "host_del" /\ Len(wsent'[w]) > Len(wsent[w])
                 /\ wlast'[w] \in {"ok", "NotFound", "ACIError"}) =>
                  wpc'[w] = "dnsrecord_del"
           /\ (wpc[w] = "dnsrecord_del" /\ Len(wsent'[w]) > Len(wsent[w])
                 /\ wlast'[w] \in {"ok", "NotFound", "ACIError"}) =>
                  (wpc'[w] = "idle" /\ wend'[w] = "returned")
           /\ (wend'[w] = "raised") => (wlast'[w] = "Error")
           /\ (Len(wsent'[w]) > Len(wsent[w]) /\ whost[w] \notin dirHosts \cup dirDns) =>
                  (directory' = directory /\ wlast'[w] \in {"NotFound", "ACIError", "Error"})]_vars

\* delete_host has returned for a host that an earlier call had deleted
C19_Witness ==
    \E w \in Workers :
        /\ configured
        /\ wop[w] = "delete_host"
        /\ wpc[w] = "idle"
        /\ wend[w] = "returned"
        /\ wsent[w] = <<"host_del", "dnsrecord_del">>
        /\ wlast[w] = "NotFound"
        /\ whost[w] \notin dirHosts \cup dirDns
        /\ nextOtp > 1
        /\ nops = MaxOps

\* C20: a create request, an instance update event and an instance delete
\* event that do not ask for enrollment end normally (create with {}), send
\* no directory command and do not look the instance up.
C20_Claim ==
    \A w \in Workers :
        (wop[w] \in {"create", "update", "delete"} /\ wpc[w] = "idle" /\ ~wenroll[w]) =>
            /\ wend[w] \in {"200", "returned"}
            /\ wdata[w] = {}
            /\ wsent[w] = <<>>
            /\ ~wlookup[w]

\* the body is empty, or lacks one of the keys create requires
Missing(body) == body = <<>> \/ body[1] = {} \/ \E k \in BodyKeys : k \notin body[1]

\* a step in which worker w receives a create request
Receives(w) ==
    /\ apc[w] = "idle"
    /\ <<abody[w], ameta[w], aauth[w], acalls[w], aend[w], apc[w]>>
         # <<abody'[w], ameta'[w], aauth'[w], acalls'[w], aend'[w], apc'[w]>>

C22_Claim ==
    \A w \in Workers :
        (~aauth[w] /\ (apc[w] # "idle" \/ aend[w] # "none"))
        => /\ apc[w] = "idle"
           /\ aend[w] = "403"
           /\ acalls[w] = <<>>

\* C25: the batch a create request flushes holds exactly the commands that
\* request added, also when the requests of two workers interleave
C25_Claim ==
    \A w \in Workers :
        (apc[w] = "idle" /\ aend[w] \in {"200", "raised"}) => aflushed[w] = aadded[w]

\* C23: a versioned notification whose major version differs from the
\* registered one does not enter the handler body, sends nothing and ends in
\* NotificationVersionMismatch; with the registered major version the handler
\* body is entered, whatever the minor version
C23_Claim ==
    nev.type \in DOMAIN Registered
    => IF nev.ver[1] # Registered[nev.type][1]
       THEN ~nran /\ nsent = <<>> /\ npc = "idle" /\ nend = "NotificationVersionMismatch"
       ELSE nran /\ nend # "NotificationVersionMismatch"

\* C24: once a disassociation of the floating IP has been handled, the
\* directory holds no A record of that IP
C24_Claim ==
    (/\ nev.type \in DOMAIN Handler
     /\ \/ Handler[nev.type] = "disassociate"
        \/ Handler[nev.type] = "floating_ip_update" /\ ~nev.port
     /\ npc = "idle")
    => ~dirA

\* C27: when the delete handler removes the managed service, no host other
\* than the principal's own host manages it at that moment
C27_Claim ==
    [][(npc = "service_del" /\ dirService /\ ~dirService')
       => dirManagedBy \ {Subhost} = {}]_vars

\* the commands that remove entries
Removals == {"host_del", "service_del", "dnsrecord_del"}

C26_Claim == \A s \in Sessions : cused[s] # 0 => cused[s] = ccache[s]


\* the number of times the character c is in str
Count(str, c) == Cardinality({i \in 1..Len(str) : str[i] = c})

\* C29: split_principal of service/host@REALM, the realm being the configured
\* one whatever its case, returns the service, the host in lower case and the
\* realm in upper case, which put together again are the input in normal
\* form; a principal with no "/", with nothing before the "/" or with more
\* than one "@" raises MalformedServicePrincipal.
C29_Claim ==
    (ufun = "split_principal" /\ ures # <<>>) =>
        LET p == uprincipal
            malformed == \/ Count(p, "/") = 0
                         \/ (Len(p) > 0 /\ p[1] = "/")
                         \/ Count(p, "@") > 1
        IN  /\ malformed => ures = <<"raise", "MalformedServicePrincipal">>
            /\ \A i, j \in 1..Len(p) :
                   ( /\ 1 < i
                     /\ i < j
                     /\ p[i] = "/"
                     /\ p[j] = "@"
                     /\ Count(p, "/") = 1
                     /\ Count(p, "@") = 1
                     /\ ToUpper(SubSeq(p, j + 1, Len(p))) = Realm )
                   => /\ ures = <<"return", SubSeq(p, 1, i - 1),
                                  ToLower(SubSeq(p, i + 1, j - 1)),
                                  ToUpper(SubSeq(p, j + 1, Len(p)))>>
                      /\ ures[2] \o <<"/">> \o ures[3] \o <<"@">> \o ures[4]
                             = SubSeq(p, 1, i - 1) \o <<"/">>
                               \o ToLower(SubSeq(p, i + 1, j - 1)) \o <<"@">> \o Realm


\* the services that the metadata md holds key by key, and those under its
\* legacy key
PerServices(md) ==
    CHOOSE c \in ServiceMaps :
        \A n \in ServiceNames :
            /\ (n \in DOMAIN c) = (PerKey(n) \in DOMAIN md)
            /\ (n \in DOMAIN c) => md[PerKey(n)] = DumpsList(c[n])
LegacyServices(md) == CHOOSE c \in ServiceMaps : md[LegacyKey] = DumpsMap(c)

InAddHost == {"add_host", "host_mod", "host_add"}

\* C31: add_host sends host_mod as its first command and host_add only as
\* its second, after host_mod raised NotFound; when it ends it has returned
\* False exactly if IPA is not configured or host_mod raised ValidationError,
\* and then it sent no host_add; it has returned True in every other case in
\* which it did not raise.
C31_Thm ==
    [][\A w \in Workers :
         (wpc[w] \in InAddHost) =>
            /\ (wsent'[w] # wsent[w] /\ wsent'[w][Len(wsent'[w])] = "host_mod")
                   => wsent[w] = <<>>
            /\ (wsent'[w] # wsent[w] /\ wsent'[w][Len(wsent'[w])] = "host_add")
                   => (wsent[w] = <<"host_mod">> /\ wlast[w] = "NotFound")
            /\ (wpc'[w] \notin InAddHost) =>
                   /\ wres'[w] \in {"True", "False", "raised"}
                   /\ (wres'[w] = "False") <=>
                          \/ ~configured
                          \/ (wsent'[w] = <<"host_mod">> /\ wlast'[w] = "ValidationError")
                   /\ (wres'[w] = "False") =>
                          (\A i \in 1..Len(wsent'[w]) : wsent'[w][i] # "host_add")
                   /\ (wres'[w] = "raised") => wlast'[w] = "Error"]_vars

\* add_host has returned True after host_mod raised NotFound and host_add
\* was refused as a duplicate
C31_Witness ==
    \E w \in Workers :
        /\ wop[w] = "add_host"
        /\ wpc[w] = "idle"
        /\ wres[w] = "True"
        /\ wsent[w] = <<"host_mod", "host_add">>
        /\ wlast[w] = "DuplicateEntry"


\* C32 (the claim as stated): with a backoff set, every connection attempt
\* that fails by a credential error, the first of the run too, is followed by
\* one kinit and one backoff sleep and adds one to the attempt counter.
C32_Claim ==
    [][(pc = "conn" /\ backoff > 0 /\ connCred' = connCred + 1) =>
          /\ kinits' = kinits + 1
          /\ nsleeps' = nsleeps + 1
          /\ tries' = tries + 1]_vars

\* C32 (amended): with a backoff set, every connection attempt that fails by
\* a credential error is followed by one kinit, adds one to the attempt
\* counter and leaves the loop running; it is followed by one backoff sleep,
\* of the stored delay, when it is not the first attempt of the run, and by
\* no sleep when it is the first.
C32_Thm ==
    [][(pc = "conn" /\ backoff > 0 /\ connCred' = connCred + 1) =>
          /\ kinits' = kinits + 1
          /\ tries' = tries + 1
          /\ attempts' = attempts + 1
          /\ pc' = "conn"
          /\ (tries > 0) => (nsleeps' = nsleeps + 1 /\ lastSleep' = backoff)
          /\ (tries = 0) => (nsleeps' = nsleeps /\ backoff' = backoff)]_vars

\* two attempts of one run have failed by a credential error: two kinits,
\* one sleep
C32_Witness ==
    /\ backoff0 > 0
    /\ pc = "conn"
    /\ runs = 1
    /\ connCred = 2
    /\ connNet = 0
    /\ kinits = 2
    /\ tries = 2
    /\ nsleeps = 1
    /\ lastSleep = backoff0


\* C33: with a backoff set and no failure but credential errors and
\* NetworkError, which stop: every _call_ipa that was entered returns the
\* result of the command; none gives up connecting and none raises.
C33_Thm ==
    /\ [](exhausted = FALSE /\ result \notin Failures)
    /\ [](called => <>(pc = "idle" /\ result = "result"))

\* a _call_ipa has returned the result after a credential error and a
\* NetworkError of connection attempts and a NetworkError of the command
C33_Witness ==
    /\ backoff0 > 0
    /\ called
    /\ pc = "idle"
    /\ result = "result"
    /\ connCred = 1
    /\ connNet = 1
    /\ cmdNet = 1
    /\ Len(sent) = 2


\* C34: in the batch that a create sends, every service_add_host of a
\* principal comes after the service_add of that principal, which comes after
\* the host_add of the principal's host; and the add_host of the enrolling
\* host has been called before the batch is sent.
C34_Claim ==
    \A w \in Workers :
        (aflushed[w] # <<>>) =>
            LET b == aflushed[w]
            IN  /\ \A k \in 1..Len(b) :
                       (b[k][1] = "service_add_host") =>
                           \E i, j \in 1..Len(b) :
                               /\ i < j
                               /\ j < k
                               /\ b[i] = <<"host_add", b[k][2][2]>>
                               /\ b[j] = <<"service_add", b[k][2]>>
                /\ configured =>
                       \E n \in 1..(Len(acalls[w]) - 1) : acalls[w][n] = "directory"


\* C35 (the claim as stated): a call of the hook that was answered after N
\* authentication failures in a row had N < connect_retries, and a call that
\* raised IPACommunicationFailure had N >= connect_retries.
C35_Claim ==
    (hpc = "idle" /\ hcalls > 0) =>
        /\ (hhow \in {"returned", "IPAError"}) => hfails < hretries
        /\ (hhow = "IPACommunicationFailure") => hfails >= hretries

\* C35 (amended): a call that began with k retries left is answered after N
\* authentication failures in a row exactly when N <= k, and raises
\* IPACommunicationFailure at failure k + 1, having posted at most k + 1
\* times, k being connect_retries when the calls before it ended by an answer
\* or by IPACommunicationFailure; once the call has ended nothing is posted
\* until the next call.
C35_Thm ==
    [][/\ (hpc = "loop" /\ hpc' = "idle" /\ hhow' \in {"returned", "IPAError"})
              => (hfails' <= hstart /\ hposts' <= hfails' + 1)
       /\ (hpc = "loop" /\ hpc' = "idle" /\ hhow' = "IPACommunicationFailure")
              => (hfails' = hstart + 1 /\ hposts' <= hstart + 1)
       /\ (hpc = "loop" /\ hfails < hstart /\ hfails' = hfails + 1) => hpc' = "loop"
       /\ (hpc = "idle" /\ hhow \in {"none", "returned", "IPAError",
                                      "IPACommunicationFailure"})
              => (hpc' = "loop" /\ hstart' = hretries)
       /\ (hpc = "idle") => hposts' = 0]_vars

\* a call was answered after as many authentication failures as
\* connect_retries
C35_Witness ==
    /\ hpc = "idle"
    /\ hhow = "returned"
    /\ hretries = 2
    /\ hstart = 2
    /\ hfails = 2
    /\ hposts = 3

\* C36: whenever a call of the hook begins, self.ntries is connect_retries
C36_Claim == (hpc = "idle") => hntries = hretries


\* C37: the stored backoff of a client never decreases: a successful
\* connection and a returned command leave it as it is, and every backoff
\* sleep is as long as the stored backoff, so at least as long as the sleep
\* before it.
C37_Thm ==
    [][/\ backoff' >= backoff
       /\ (connOk' = connOk + 1 \/ (pc = "send" /\ result' = "result")) => backoff' = backoff
       /\ (nsleeps' = nsleeps + 1) => (lastSleep' = backoff /\ lastSleep' >= lastSleep)]_vars

\* a command that was called on the connection of an earlier operation has
\* failed by NetworkError and slept twice as long as the sleep before that
\* connection was made
C37_Witness ==
    /\ backoff0 = BACKOFF
    /\ nsleeps = 2
    /\ lastSleep = 2 * BACKOFF
    /\ runs = 0
    /\ connOk = 0
    /\ cmdNet = 1
    /\ pc = "send"


\* C38: info() for an event type that has no handler sends no directory
\* command and returns without raising.
C38_Claim ==
    (nev.type \in UnknownTypes) => (npc = "idle" /\ nsent = <<>> /\ nend = "returned")


\* C39: in GlanceClient.call every attempt uses the controller the call was
\* made for, there are at most max(glance_num_retries, 0) + 1 attempts, and
\* GlanceConnectionFailed is raised only after the last of them failed with
\* an error that is retried.
C39_Claim ==
    /\ \A i \in 1..Len(gused) : gused[i] = gctl
    /\ Len(gused) <= (IF gretries < 0 THEN 0 ELSE gretries) + 1
    /\ (gend = "GlanceConnectionFailed") =>
           (Len(gused) = (IF gretries < 0 THEN 0 ELSE gretries) + 1 /\ glast = "retry")

====
